---- MODULE Spec2Model ----
(***************************************************************************)
(* Smart Focus Timer: the Pomodoro engine (src/src/models/timer.py,        *)
(* src/src/models/session.py) and the window that drives it               *)
(* (src/src/ui/main_window.py).                                            *)
(*                                                                         *)
(* Two specifications share the definitions of the engine:                 *)
(*   Spec     the engine called by an arbitrary serialized caller, its     *)
(*            three callbacks bound to observers that only record the      *)
(*            notification;                                                *)
(*   AppSpec  the engine as MainWindow wires it: on_state_change and       *)
(*            on_session_complete are MainWindow's handlers, on_tick is    *)
(*            left unset, and the handlers of the window are the actions.  *)
(*                                                                         *)
(* SettingsSpec, DaySpec and StatisticsSpec are the engine with its        *)
(* settings, the date, or one long session followed; HistorySpec is the    *)
(* history store (src/src/services/data_manager.py) from one run of the    *)
(* program to the next, its file written chunk by chunk.                   *)
(* SummarySpec is the history queried for its statistics day after day,    *)
(* and LiveSpec the engine driven by the one-second timer alone, with the  *)
(* user present on infinitely many ticks.                                  *)
(*                                                                         *)
(* Python's Optional[X] is a sequence of length 0 (None) or 1.             *)
(***************************************************************************)
EXTENDS Integers, Sequences, FiniteSets, TLC

(* ---- bounds of the model ---- *)

\* Seconds in a minute.  The source multiplies minutes by 60; the model
\* scales the minute down so that a session lasts a few ticks.
SecondsPerMinute == 2
\* Largest duration, in minutes, given to the constructor or to set_durations.
MaxMinutes == 2
\* Work sessions before a long break (constructor argument).
SessionsUntilLongBreak == 2
\* Ticks that change a counter are applied while fewer than this many
\* seconds have been counted in total.
MaxTime == 8
\* With the durations changing, ticks are applied while fewer than this many
\* seconds have been counted.
MaxSettingsTime == 4
\* With the spin boxes changing, the window's events are applied while fewer
\* than this many seconds have been counted.
MaxAppSettingsTime == 2
\* Calendar days the clock may advance.
MaxDay == 1
\* Largest daily goal target.
MaxGoal == 2
\* The window stops counting absent detector results beyond this many.
MaxAwayFrames == 4
\* Ticks of the application are applied while fewer than this many seconds
\* have been counted.
MaxAppTime == 6
\* Detector results are delivered while fewer distractions than this are counted.
MaxDistractions == 2
\* With the date changing, the engine is called while fewer than this many
\* seconds have been counted.
MaxDayTime == 6
\* Minutes of the work session whose statistics are followed second by second.
StatisticsMinutes == 15
\* Ticks of that work session and of the break after it are applied while
\* fewer than this many seconds have been counted.
MaxStatisticsTime == 52
\* add_session is called while the history holds fewer sessions than this.
MaxHistory == 3
\* With the driver ticking for ever, a tick that counts a second down is
\* applied while fewer than this many seconds have been counted down.
MaxLiveTime == 12
\* With the driver ticking for ever, a tick away from a work session is
\* applied while fewer than this many seconds away have been counted.
MaxLiveAway == 2

(* ---- src/src/models/session.py ---- *)

None == <<>>
Some(x) == <<x>>
IsNone(o) == o = <<>>
Get(o) == o[1]

WORK == "work"
SHORT_BREAK == "short_break"
LONG_BREAK == "long_break"
SessionType == {WORK, SHORT_BREAK, LONG_BREAK}

NOT_STARTED == "not_started"
RUNNING == "running"
PAUSED == "paused"
PAUSED_AWAY == "paused_away"
COMPLETED == "completed"
SessionState == {NOT_STARTED, RUNNING, PAUSED, PAUSED_AWAY, COMPLETED}

\* focus_percentage is a Python float, held as the binary64 number it is
\* (FocusPercentage below).
SessionStatistics(total_duration, focus_time, away_time, distraction_count, focus_percentage) ==
    [total_duration |-> total_duration, focus_time |-> focus_time,
     away_time |-> away_time, distraction_count |-> distraction_count,
     focus_percentage |-> focus_percentage]

Session(session_type, planned_duration) ==
    [session_type |-> session_type, planned_duration |-> planned_duration,
     start_time |-> None, end_time |-> None, state |-> NOT_STARTED,
     statistics |-> None]

SessionStart(s, clock) == [s EXCEPT !.start_time = Some(clock), !.state = RUNNING]

\* Mutation of SessionPause: is_away is ignored.
SessionPauseManual(s, is_away) == [s EXCEPT !.state = PAUSED]

SessionPause(s, is_away) == [s EXCEPT !.state = IF is_away THEN PAUSED_AWAY ELSE PAUSED]

SessionResume(s) == [s EXCEPT !.state = RUNNING]

\* Mutation of SessionComplete: the start is stamped again at completion.
SessionCompleteRestamps(s, statistics, clock) ==
    [s EXCEPT !.start_time = Some(clock), !.end_time = Some(clock),
              !.state = COMPLETED, !.statistics = Some(statistics)]

SessionComplete(s, statistics, clock) ==
    [s EXCEPT !.end_time = Some(clock), !.state = COMPLETED,
              !.statistics = Some(statistics)]

DailyGoal(target_sessions, clock) ==
    [target_sessions |-> target_sessions, completed_sessions |-> 0, date |-> clock]

DailyGoalIncrement(g) == [g EXCEPT !.completed_sessions = @ + 1]

\* Mutation of DailyGoalResetIfNewDay: the count restarts at every call.
DailyGoalResetAlways(g, clock) == [g EXCEPT !.completed_sessions = 0, !.date = clock]

DailyGoalResetIfNewDay(g, clock) ==
    IF g.date # clock THEN [g EXCEPT !.completed_sessions = 0, !.date = clock] ELSE g

(* ---- state ---- *)

VARIABLES
    timer,         \* the PomodoroTimer (models/timer.py)
    window,        \* the MainWindow fields that drive it (ui/main_window.py)
    data_manager,  \* the DataManager's session list (services/data_manager.py)
    clock,         \* the calendar date datetime.now() gives
    fired,         \* the callbacks the last operation invoked, in order
    op,            \* the last operation invoked and its arguments
    absences,      \* history: for each detector result since the last one with
                   \* a face, whether the engine reported RUNNING when it came
    saving         \* the save_history call in flight: the chunks of text it has
                   \* still to write to the history file (None: no call in flight)

vars == <<timer, window, data_manager, clock, fired, op, absences, saving>>

\* A callback slot holds None, an observer that records the notification, or
\* the MainWindow handler.
OBSERVER == "observer"
WINDOW == "window"
NO_CALLBACK == "none"

(* ---- src/src/models/timer.py: PomodoroTimer ---- *)

PomodoroTimer(work_duration, short_break_duration, long_break_duration, sessions_until_long_break, daily_goal, now) ==
    [work_duration |-> work_duration * SecondsPerMinute,
     short_break_duration |-> short_break_duration * SecondsPerMinute,
     long_break_duration |-> long_break_duration * SecondsPerMinute,
     sessions_until_long_break |-> sessions_until_long_break,
     current_session |-> None,
     time_remaining |-> work_duration * SecondsPerMinute,
     session_count |-> 0,
     total_focus_time |-> 0,
     total_break_time |-> 0,
     total_away_time |-> 0,
     current_session_focus_time |-> 0,
     current_session_away_time |-> 0,
     distraction_count |-> 0,
     daily_goal |-> DailyGoal(daily_goal, now),
     on_session_complete |-> NO_CALLBACK,
     on_tick |-> NO_CALLBACK,
     on_state_change |-> NO_CALLBACK]

HasSession(t) == ~IsNone(t.current_session)

GetState(t) == IF HasSession(t) THEN Get(t.current_session).state ELSE NOT_STARTED

GetSessionType(t) == IF HasSession(t) THEN Some(Get(t.current_session).session_type) ELSE None

\* Mutation of IsLongBreak: the guard session_count > 0 is dropped.
IsLongBreakUnguarded(t) ==
    t.session_count % t.sessions_until_long_break = 0

\* start_break_session, lines 80-81
IsLongBreak(t) ==
    /\ t.session_count % t.sessions_until_long_break = 0
    /\ t.session_count > 0

\* Mutation of TickCount: a present second of a work session is counted as
\* focus but does not count the session down.
TickCountNeverCountsDown(t, user_present) ==
    IF Get(t.current_session).session_type = WORK
    THEN IF user_present
         THEN [t EXCEPT !.total_focus_time = @ + 1,
                        !.current_session_focus_time = @ + 1]
         ELSE [t EXCEPT !.total_away_time = @ + 1,
                        !.current_session_away_time = @ + 1]
    ELSE [t EXCEPT !.time_remaining = @ - 1,
                   !.total_break_time = @ + 1]

\* Mutations of TickCount: the per-session focus counter is forgotten; an
\* away second counts the work session down; a break waits for the user.
TickCountTotalOnly(t, user_present) ==
    IF Get(t.current_session).session_type = WORK
    THEN IF user_present
         THEN [t EXCEPT !.time_remaining = @ - 1,
                        !.total_focus_time = @ + 1]
         ELSE [t EXCEPT !.total_away_time = @ + 1,
                        !.current_session_away_time = @ + 1]
    ELSE [t EXCEPT !.time_remaining = @ - 1,
                   !.total_break_time = @ + 1]

TickCountAwayCountsDown(t, user_present) ==
    IF Get(t.current_session).session_type = WORK
    THEN IF user_present
         THEN [t EXCEPT !.time_remaining = @ - 1,
                        !.total_focus_time = @ + 1,
                        !.current_session_focus_time = @ + 1]
         ELSE [t EXCEPT !.time_remaining = @ - 1,
                        !.total_away_time = @ + 1,
                        !.current_session_away_time = @ + 1]
    ELSE [t EXCEPT !.time_remaining = @ - 1,
                   !.total_break_time = @ + 1]

TickCountBreakWaits(t, user_present) ==
    IF user_present
    THEN IF Get(t.current_session).session_type = WORK
         THEN [t EXCEPT !.time_remaining = @ - 1,
                        !.total_focus_time = @ + 1,
                        !.current_session_focus_time = @ + 1]
         ELSE [t EXCEPT !.time_remaining = @ - 1,
                        !.total_break_time = @ + 1]
    ELSE [t EXCEPT !.total_away_time = @ + 1,
                   !.current_session_away_time = @ + 1]

\* tick, lines 131-151: what one counted second does to the counters
TickCount(t, user_present) ==
    IF Get(t.current_session).session_type = WORK
    THEN IF user_present
         THEN [t EXCEPT !.time_remaining = @ - 1,
                        !.total_focus_time = @ + 1,
                        !.current_session_focus_time = @ + 1]
         ELSE [t EXCEPT !.total_away_time = @ + 1,
                        !.current_session_away_time = @ + 1]
    ELSE [t EXCEPT !.time_remaining = @ - 1,
                   !.total_break_time = @ + 1]

(* ---- Python float: IEEE 754 binary64, round to nearest, ties to even ---- *)

\* Significant bits of a binary64 number.
MantissaBits == 53

\* A float is 0 or bits[1].bits[2] ... bits[53] * 2^exp with bits[1] = 1.
FloatZero == [exp |-> 0, bits |-> <<>> \o [i \in 1..MantissaBits |-> 0]]

RECURSIVE BitsOfInt(_, _), ScaleUp(_, _, _), ScaleDown(_, _, _)
RECURSIVE DivBits(_, _, _, _), MulBits(_, _, _, _, _), IntOfBits(_, _, _)

\* n in binary, most significant bit first, in front of acc
BitsOfInt(n, acc) == IF n = 0 THEN acc ELSE BitsOfInt(n \div 2, <<n % 2>> \o acc)

\* The tuple bits rounded to its first 53 places; a carry out of the first
\* place moves the exponent.
RoundBits(bits, exp) ==
    IF Len(bits) <= MantissaBits
    THEN [exp |-> exp,
          bits |-> bits \o [i \in 1..(MantissaBits - Len(bits)) |-> 0]]
    ELSE LET kept == SubSeq(bits, 1, MantissaBits)
             half == bits[MantissaBits + 1] = 1
             sticky == \E i \in (MantissaBits + 2)..Len(bits) : bits[i] = 1
             up == half /\ (sticky \/ bits[MantissaBits] = 1)
             zeros == {i \in 1..MantissaBits : bits[i] = 0}
             last == CHOOSE i \in zeros : \A j \in zeros : j <= i
         IN IF ~up
            THEN [exp |-> exp, bits |-> kept]
            ELSE IF zeros = {}
                 THEN [exp |-> exp + 1,
                       bits |-> <<1>> \o [i \in 1..(MantissaBits - 1) |-> 0]]
                 ELSE [exp |-> exp,
                       bits |-> SubSeq(bits, 1, last - 1) \o <<1>>
                                    \o [i \in 1..(MantissaBits - last) |-> 0]]

\* The value bits[1].bits[2] ... * 2^exp rounded to 53 significant bits
\* (bits is evaluated once).
RoundToFloat(bits, exp) == CHOOSE x \in {RoundBits(b, exp) : b \in {bits}} : TRUE

\* float(n) for an int n >= 0 of fewer than 53 bits
FloatOfInt(n) ==
    IF n = 0 THEN FloatZero
    ELSE RoundToFloat(BitsOfInt(n, <<>>), Len(BitsOfInt(n, <<>>)) - 1)

\* a * 2^shift, the first one that is >= b
ScaleUp(a, b, shift) ==
    IF a >= b THEN [value |-> a, shift |-> shift] ELSE ScaleUp(2 * a, b, shift + 1)

\* b * 2^shift, the last one that is <= a
ScaleDown(a, b, shift) ==
    IF 2 * b > a THEN [value |-> b, shift |-> shift] ELSE ScaleDown(a, 2 * b, shift + 1)

\* n more bits of the quotient r / d (r < d) after acc, then a bit telling
\* whether a remainder is left
DivBits(r, d, n, acc) ==
    IF n = 0 THEN Append(acc, IF r > 0 THEN 1 ELSE 0)
    ELSE IF 2 * r >= d
         THEN DivBits(2 * r - d, d, n - 1, Append(acc, 1))
         ELSE DivBits(2 * r, d, n - 1, Append(acc, 0))

\* a / b for ints a >= 0 and b > 0 (Python's true division, correctly rounded)
FloatDiv(a, b) ==
    IF a = 0 THEN FloatZero
    ELSE IF a >= b
         THEN LET d == ScaleDown(a, b, 0)
              IN RoundToFloat(DivBits(a - d.value, d.value, MantissaBits, <<1>>), d.shift)
         ELSE LET n == ScaleUp(a, b, 0)
              IN RoundToFloat(DivBits(n.value - b, b, MantissaBits, <<1>>), 0 - n.shift)

\* bits[1..i] * c + carry in binary, in front of acc
MulBits(bits, i, c, carry, acc) ==
    IF i = 0 THEN BitsOfInt(carry, acc)
    ELSE MulBits(bits, i - 1, c, (bits[i] * c + carry) \div 2,
                 <<(bits[i] * c + carry) % 2>> \o acc)

\* the product of the 53 bits of y and c, as a float with y's exponent
MulFloat(y, c, product) == RoundBits(product, y.exp + Len(product) - MantissaBits)

\* x * c for a float x and an int c > 0 (x is evaluated once)
FloatMulInt(x, c) ==
    CHOOSE z \in {IF y = FloatZero THEN FloatZero
                  ELSE CHOOSE r \in {MulFloat(y, c, product) :
                                        product \in {MulBits(y.bits, MantissaBits, c, 0, <<>>)}} : TRUE
                  : y \in {x}} : TRUE

\* the int of the first n bits, after acc
IntOfBits(bits, n, acc) ==
    IF n = 0 THEN acc
    ELSE IntOfBits(Tail(bits), n - 1, 2 * acc + Head(bits))

\* int(x) for a float 0 <= x < 2^31
FloatTrunc(x) ==
    CHOOSE n \in {IF y.exp < 0 THEN 0 ELSE IntOfBits(y.bits, y.exp + 1, 0) : y \in {x}} : TRUE

\* x < y for floats x, y >= 0
FloatLess(x, y) ==
    \E u \in {x}, v \in {y} :
        IF u = FloatZero THEN v # FloatZero
        ELSE IF v = FloatZero THEN FALSE
        ELSE IF u.exp # v.exp THEN u.exp < v.exp
        ELSE \E i \in 1..MantissaBits :
                 /\ u.bits[i] < v.bits[i]
                 /\ \A j \in 1..(i - 1) : u.bits[j] = v.bits[j]

RECURSIVE Borrow(_, _, _)

\* bits without its leading zeros
StripBits(bits) ==
    LET ones == {i \in 1..Len(bits) : bits[i] = 1}
    IN IF ones = {} THEN <<>>
       ELSE SubSeq(bits, CHOOSE i \in ones : \A j \in ones : i <= j, Len(bits))

\* bits with zeros in front, n long
PadBits(bits, n) == [i \in 1..(n - Len(bits)) |-> 0] \o bits

\* The long division works on pieces of this many bits.
PieceBits == 26

\* The pieces of the quotient of high * 2^52 + low * 2^26 by c, in binary
\* one after another, then a bit telling whether a remainder is left.
QuotientBits(high, low, c) ==
    LET second == (high % c) * 2^PieceBits + low
        third == (second % c) * 2^PieceBits
    IN PadBits(BitsOfInt(high \div c, <<>>), MantissaBits - PieceBits)
           \o PadBits(BitsOfInt(second \div c, <<>>), PieceBits)
           \o PadBits(BitsOfInt(third \div c, <<>>), PieceBits)
           \o <<IF third % c > 0 THEN 1 ELSE 0>>

\* The quotient q of the 53 bits of y, as a float: every leading zero of q
\* is a place lost to the division.
DivFloat(y, q) == RoundBits(StripBits(q), y.exp - (Len(q) - Len(StripBits(q))))

\* x / c for a float x >= 0 and an int 0 < c < 16, correctly rounded (x is
\* evaluated once)
FloatDivInt(x, c) ==
    CHOOSE z \in {IF y = FloatZero THEN FloatZero
                  ELSE CHOOSE r \in {DivFloat(y, q) :
                                        q \in {QuotientBits(
                                                   IntOfBits(SubSeq(y.bits, 1, MantissaBits - PieceBits),
                                                             MantissaBits - PieceBits, 0),
                                                   IntOfBits(SubSeq(y.bits, MantissaBits - PieceBits + 1,
                                                                    MantissaBits),
                                                             PieceBits, 0),
                                                   c)}} : TRUE
                  : y \in {x}} : TRUE

\* The borrow taken from place i in x - y (x >= y, equally long).
Borrow(x, y, i) ==
    IF i = Len(x) THEN 0
    ELSE IF x[i + 1] - y[i + 1] - Borrow(x, y, i + 1) < 0 THEN 1 ELSE 0

\* x - y in binary (x >= y, equally long)
SubBits(x, y) == [i \in 1..Len(x) |-> (x[i] - y[i] - Borrow(x, y, i) + 2) % 2]

\* x < y for binary numbers of the same length
BitsLess(x, y) ==
    \E i \in 1..Len(x) : x[i] < y[i] /\ \A j \in 1..(i - 1) : x[j] = y[j]

\* The binary number d counted in units of 2^unit, as a float.
FloatOfBits(d, unit) ==
    IF d = <<>> THEN FloatZero ELSE RoundBits(d, Len(d) - 1 + unit)

\* The difference of the binary numbers l and r, equally long and counted
\* in units of 2^unit, as a signed float: the larger minus the smaller.
SignedDifference(l, r, unit) ==
    [negative |-> BitsLess(l, r),
     magnitude |-> CHOOSE m \in {FloatOfBits(d, unit) :
                                    d \in {StripBits(IF BitsLess(l, r) THEN SubBits(r, l)
                                                                       ELSE SubBits(l, r))}} : TRUE]

\* The int a in binary, counted in units of 2^unit (unit <= 0).
ScaledBits(a, unit) ==
    IF a = 0 THEN <<>> ELSE BitsOfInt(a, <<>>) \o [i \in 1..(0 - unit) |-> 0]

\* l and r, both n long
AlignedDifference(l, r, n, unit) ==
    CHOOSE z \in {SignedDifference(u, v, unit) :
                     u \in {PadBits(l, n)}, v \in {PadBits(r, n)}} : TRUE

\* a - x for an int a >= 0 and a float 0 < x < 2^52, correctly rounded
\* (x is evaluated once)
IntMinusFloat(a, x) ==
    CHOOSE z \in {AlignedDifference(left, y.bits,
                                    IF Len(left) > MantissaBits THEN Len(left) ELSE MantissaBits,
                                    y.exp - (MantissaBits - 1))
                  : left \in {ScaledBits(a, y.exp - (MantissaBits - 1)) : y \in {x}},
                    y \in {x}} : TRUE

\* SessionStatistics.focus_score, session.py lines 41-44
FocusScore(statistics) ==
    CHOOSE score \in {IF n < 100 THEN n ELSE 100 :
                         n \in {FloatTrunc(statistics.focus_percentage)}} : TRUE

\* Mutation of FocusPercentage: the ratio is not scaled to a percentage.
FocusPercentageRatio(focus_time, away_time) ==
    IF focus_time + away_time > 0
    THEN FloatDiv(focus_time, focus_time + away_time)
    ELSE FloatOfInt(100)

\* Mutation of FocusPercentage: the product is formed before the quotient.
FocusPercentageProductFirst(focus_time, away_time) ==
    IF focus_time + away_time > 0
    THEN FloatDiv(focus_time * 100, focus_time + away_time)
    ELSE FloatOfInt(100)

\* _complete_current_session, lines 167-171:
\* current_session_focus_time / total_time * 100, or the int 100, which
\* compares and truncates as the float 100.0
FocusPercentage(focus_time, away_time) ==
    IF focus_time + away_time > 0
    THEN FloatMulInt(FloatDiv(focus_time, focus_time + away_time), 100)
    ELSE FloatOfInt(100)

\* _complete_current_session, lines 166-179 (the engine t is evaluated once)
CompletionStatistics(t) ==
    CHOOSE statistics \in
        {SessionStatistics(Get(e.current_session).planned_duration,
                           e.current_session_focus_time,
                           e.current_session_away_time,
                           e.distraction_count,
                           FocusPercentage(e.current_session_focus_time,
                                           e.current_session_away_time)) : e \in {t}} : TRUE

\* Mutation of SessionOver: the session ends only below zero.
SessionOverBelowZero(t) == t.time_remaining < 0

\* tick, line 154
SessionOver(t) == t.time_remaining <= 0

\* Mutation of TickEnabled: a paused session is ticked too.
TickEnabledWhenPaused(t) == HasSession(t)

\* tick, line 128
TickEnabled(t) == HasSession(t) /\ GetState(t) = RUNNING

\* pause, line 98
PauseEnabled(t) == HasSession(t) /\ GetState(t) = RUNNING

\* resume, lines 105-107
ResumeEnabled(t) == HasSession(t) /\ GetState(t) \in {PAUSED, PAUSED_AWAY}

\* pause, lines 98-99
PauseSession(t, is_away) ==
    [t EXCEPT !.current_session = Some(SessionPause(Get(@), is_away))]

\* resume, lines 105-108
ResumeSession(t) ==
    [t EXCEPT !.current_session = Some(SessionResume(Get(@)))]

\* Mutation of StopSession: time_remaining stays where the session left it.
StopSessionKeepsTime(t) == [t EXCEPT !.current_session = None]

\* Mutation of StopSession: the countdown is cleared, not reset.
StopSessionClearsTime(t) == [t EXCEPT !.current_session = None, !.time_remaining = 0]

\* Mutation of StopSession: the cumulative totals start again.
StopSessionResetsTotals(t) ==
    [t EXCEPT !.current_session = None, !.time_remaining = t.work_duration,
              !.total_focus_time = 0, !.total_break_time = 0, !.total_away_time = 0]

\* Mutation of StopSession: the cycle of work sessions starts again.
StopSessionRestartsCycle(t) ==
    [t EXCEPT !.current_session = None, !.time_remaining = t.work_duration,
              !.session_count = 0]

\* stop, lines 115-116
StopSession(t) ==
    [t EXCEPT !.current_session = None, !.time_remaining = t.work_duration]

(* ---- src/src/services/data_manager.py: DataManager ---- *)

\* The history file: missing, or the text written to it so far.  The text
\* of a document is a sequence of chunks: the opening of the object and of
\* its 'sessions' list, one chunk for each session record, and the closing
\* with 'last_updated' and 'total_sessions'.  A JSON null is <<>>.
NoFile == [exists |-> FALSE, content |-> <<>>]
File(content) == [exists |-> TRUE, content |-> content]

\* datetime.isoformat and datetime.fromisoformat
IsoFormat(d) == <<"T", d>>
IsIsoFormat(x) == Len(x) = 2 /\ x[1] = "T"
FromIsoFormat(x) == x[2]

\* The fields of SessionStatistics, session.py lines 31-35
StatisticsFields ==
    {"total_duration", "focus_time", "away_time", "distraction_count", "focus_percentage"}

\* Session.to_dict, session.py lines 76-85 (statistics: asdict, or null)
SessionToDict(s) ==
    [session_type |-> s.session_type,
     planned_duration |-> s.planned_duration,
     start_time |-> IF IsNone(s.start_time) THEN <<>> ELSE IsoFormat(Get(s.start_time)),
     end_time |-> IF IsNone(s.end_time) THEN <<>> ELSE IsoFormat(Get(s.end_time)),
     state |-> s.state,
     statistics |-> IF IsNone(s.statistics) THEN <<>> ELSE <<Get(s.statistics)>>]

\* dict.get(key): None when the key is missing
DictGet(d, key) == IF key \in DOMAIN d THEN d[key] ELSE <<>>

\* Session.from_dict, session.py lines 87-102: the exception it raises on
\* the record d, "none" when it returns
FromDictError(d) ==
    IF "session_type" \notin DOMAIN d THEN "KeyError"
    ELSE IF d.session_type \notin SessionType THEN "ValueError"
    ELSE IF "planned_duration" \notin DOMAIN d THEN "KeyError"
    ELSE IF DictGet(d, "start_time") # <<>> /\ ~IsIsoFormat(d.start_time) THEN "ValueError"
    ELSE IF DictGet(d, "end_time") # <<>> /\ ~IsIsoFormat(d.end_time) THEN "ValueError"
    ELSE IF "state" \notin DOMAIN d THEN "KeyError"
    ELSE IF d.state \notin SessionState THEN "ValueError"
    ELSE IF DictGet(d, "statistics") # <<>> /\ DOMAIN d.statistics[1] # StatisticsFields
         THEN "TypeError"
    ELSE "none"

\* Mutation of FromDict: the end of the session is not read back.
FromDictWithoutEnd(d) ==
    [session_type |-> d.session_type,
     planned_duration |-> d.planned_duration,
     start_time |-> IF DictGet(d, "start_time") # <<>>
                    THEN Some(FromIsoFormat(d.start_time)) ELSE None,
     end_time |-> None,
     state |-> d.state,
     statistics |-> IF DictGet(d, "statistics") # <<>>
                    THEN Some(d.statistics[1]) ELSE None]

\* Session.from_dict, session.py lines 87-102: the session it returns
FromDict(d) ==
    [session_type |-> d.session_type,
     planned_duration |-> d.planned_duration,
     start_time |-> IF DictGet(d, "start_time") # <<>>
                    THEN Some(FromIsoFormat(d.start_time)) ELSE None,
     end_time |-> IF DictGet(d, "end_time") # <<>>
                  THEN Some(FromIsoFormat(d.end_time)) ELSE None,
     state |-> d.state,
     statistics |-> IF DictGet(d, "statistics") # <<>>
                    THEN Some(d.statistics[1]) ELSE None]

\* The text is a complete object with a 'sessions' list.
IsDocument(content) ==
    /\ Len(content) >= 2
    /\ content[1].chunk = "open"
    /\ content[Len(content)].chunk = "close"
    /\ \A i \in 2..(Len(content) - 1) : content[i].chunk = "session"

\* json.load accepts the text: a document, or a JSON value that is no object.
IsJson(content) ==
    \/ IsDocument(content)
    \/ Len(content) = 1 /\ content[1].chunk = "value"

\* data.get('sessions', []) of a document
Records(content) == [i \in 1..(Len(content) - 2) |-> content[i + 1].value]

\* load_history, lines 39-42: the exception raised inside the try block,
\* "none" when the block runs to its end
LoadError(content) ==
    IF ~IsJson(content) THEN "JSONDecodeError"
    ELSE IF ~IsDocument(content) THEN "AttributeError"
    ELSE LET bad == {i \in 1..Len(Records(content)) :
                        FromDictError(Records(content)[i]) # "none"}
         IN IF bad = {}
            THEN "none"
            ELSE FromDictError(Records(content)[CHOOSE i \in bad : \A j \in bad : i <= j])

\* Mutation of IsException: only a text that is not JSON is handled.
IsJsonError(e) == e = "JSONDecodeError"

\* load_history, line 46 (and save_history, line 63): except Exception
IsException(e) ==
    e \in {"JSONDecodeError", "AttributeError", "KeyError", "ValueError", "TypeError",
           "OSError"}

\* DataManager.load_history, lines 35-48: the manager it leaves and the
\* exception that leaves it ("none" when it returns)
LoadHistory(dm) ==
    IF ~dm.history_file.exists
    THEN [data_manager |-> dm, raised |-> "none"]
    ELSE LET content == dm.history_file.content
             e == LoadError(content)
         IN IF e = "none"
            THEN [data_manager |->
                      [dm EXCEPT !.sessions = [i \in 1..Len(Records(content)) |->
                                                  FromDict(Records(content)[i])]],
                  raised |-> "none"]
            ELSE IF IsException(e)
                 THEN [data_manager |-> [dm EXCEPT !.sessions = <<>>], raised |-> "none"]
                 ELSE [data_manager |-> dm, raised |-> e]

\* DataManager.__init__, lines 22-33, with the history file as it is found
NewDataManager(file) == LoadHistory([sessions |-> <<>>, history_file |-> file])

\* save_history, lines 53-57 and json.dump: the text to write
Document(sessions, now) ==
    <<[chunk |-> "open"]>>
        \o [i \in 1..Len(sessions) |-> [chunk |-> "session", value |-> SessionToDict(sessions[i])]]
        \o <<[chunk |-> "close", last_updated |-> IsoFormat(now),
              total_sessions |-> Len(sessions)]>>

\* DataManager.save_history, lines 50-64, when nothing fails and it runs to
\* its end
SaveHistory(dm, now) ==
    [dm EXCEPT !.history_file = File(Document(dm.sessions, now))]

\* Mutation of AddSession: a session without statistics is added too.
AddSessionUnguarded(dm, session, now) ==
    SaveHistory([dm EXCEPT !.sessions = Append(@, session)], now)

\* Mutation of AddSession: the session is put in front.
AddSessionInFront(dm, session, now) ==
    IF ~IsNone(session.statistics)
    THEN SaveHistory([dm EXCEPT !.sessions = <<session>> \o @], now)
    ELSE dm

\* DataManager.add_session, lines 66-71
AddSession(dm, session, now) ==
    IF ~IsNone(session.statistics)
    THEN SaveHistory([dm EXCEPT !.sessions = Append(@, session)], now)
    ELSE dm

\* Mutation of RecentSessions: a session started exactly at the cutoff is
\* dropped as well.
RecentSessionsAfterCutoff(sessions, days_to_keep, now) ==
    SelectSeq(sessions, LAMBDA s : ~IsNone(s.start_time)
                                   /\ Get(s.start_time) > now - days_to_keep)

\* clear_old_sessions, lines 226-229: the sessions kept
RecentSessions(sessions, days_to_keep, now) ==
    SelectSeq(sessions, LAMBDA s : ~IsNone(s.start_time)
                                   /\ Get(s.start_time) >= now - days_to_keep)

\* datetime.weekday() counts from Monday; day 0 of the clock is a Sunday.
DaysPerWeek == 7
FirstWeekday == 6
Weekday(date) == (date + FirstWeekday) % DaysPerWeek

\* DataManager.get_sessions_by_date, lines 73-79
GetSessionsByDate(dm, date) ==
    SelectSeq(dm.sessions, LAMBDA s : ~IsNone(s.start_time) /\ Get(s.start_time) = date)

\* DataManager.get_sessions_in_range, lines 81-87
GetSessionsInRange(dm, start_date, end_date) ==
    SelectSeq(dm.sessions, LAMBDA s : /\ ~IsNone(s.start_time)
                                      /\ start_date <= Get(s.start_time)
                                      /\ Get(s.start_time) <= end_date)

\* DataManager.get_today_sessions, lines 89-91
GetTodaySessions(dm, now) == GetSessionsByDate(dm, now)

\* DataManager.get_this_week_sessions, lines 93-97
GetThisWeekSessions(dm, now) == GetSessionsInRange(dm, now - Weekday(now), now)

\* Mutation of WorkSessions: breaks are counted too.
EverySession(sessions) == sessions

\* get_statistics_summary, line 112
WorkSessions(sessions) == SelectSeq(sessions, LAMBDA s : s.session_type = WORK)

RECURSIVE SumSeq(_)

\* sum(values)
SumSeq(values) == IF values = <<>> THEN 0 ELSE Head(values) + SumSeq(Tail(values))

\* max(values) and min(values) of a non-empty list
MaxSeq(values) ==
    CHOOSE v \in {values[i] : i \in 1..Len(values)} : \A i \in 1..Len(values) : values[i] <= v
MinSeq(values) ==
    CHOOSE v \in {values[i] : i \in 1..Len(values)} : \A i \in 1..Len(values) : v <= values[i]

\* What a call gives: the value it returns, or the exception it raises.
Returns(value) == [value |-> Some(value), raised |-> "none"]
Raises(exception) == [value |-> None, raised |-> exception]

\* get_statistics_summary, lines 114-123
ZeroSummary ==
    [total_sessions |-> 0, total_focus_time |-> 0, total_away_time |-> 0,
     average_focus_score |-> 0, total_distractions |-> 0,
     best_session_score |-> 0, worst_session_score |-> 0]

MinutesPerHour == 60

\* get_statistics_summary, lines 125-140, for a non-empty list of work
\* sessions with statistics
Summary(work_sessions, focus_scores, total_focus_time) ==
    [total_sessions |-> Len(work_sessions),
     total_focus_time |-> total_focus_time,
     total_away_time |-> SumSeq([i \in 1..Len(work_sessions)
                                    |-> Get(work_sessions[i].statistics).away_time]),
     average_focus_score |-> FloatDiv(SumSeq(focus_scores), Len(focus_scores)),
     total_distractions |-> SumSeq([i \in 1..Len(work_sessions)
                                      |-> Get(work_sessions[i].statistics).distraction_count]),
     best_session_score |-> MaxSeq(focus_scores),
     worst_session_score |-> MinSeq(focus_scores),
     focus_time_hours |-> FloatDiv(total_focus_time, MinutesPerHour * SecondsPerMinute),
     focus_time_minutes |-> FloatDiv(total_focus_time, SecondsPerMinute)]

\* The summary of the work sessions, or the error of reading the statistics
\* of a session that has none.
SummaryOf(work_sessions) ==
    IF work_sessions = <<>> THEN Returns(ZeroSummary)
    ELSE IF \E i \in 1..Len(work_sessions) : IsNone(work_sessions[i].statistics)
         THEN Raises("AttributeError")
         ELSE Returns(Summary(work_sessions,
                              [i \in 1..Len(work_sessions)
                                  |-> FocusScore(Get(work_sessions[i].statistics))],
                              SumSeq([i \in 1..Len(work_sessions)
                                         |-> Get(work_sessions[i].statistics).focus_time])))

\* DataManager.get_statistics_summary, lines 99-140; sessions is None for
\* the default
GetStatisticsSummary(dm, sessions) ==
    CHOOSE r \in {SummaryOf(work_sessions) :
                     work_sessions \in {WorkSessions(IF IsNone(sessions) THEN dm.sessions
                                                     ELSE Get(sessions))}} : TRUE

\* get_productivity_trends, lines 174-186, for a week of daily_avg_sessions;
\* the int 0 of line 185 compares as the float 0.0
Trends(week_stats, today_stats, daily_avg_sessions) ==
    [week_summary |-> week_stats,
     today_summary |-> today_stats,
     daily_average_sessions |-> daily_avg_sessions,
     daily_average_focus_minutes |-> FloatDivInt(week_stats.focus_time_minutes, DaysPerWeek),
     today_vs_average |-> IF daily_avg_sessions # FloatZero
                          THEN IntMinusFloat(today_stats.total_sessions, daily_avg_sessions)
                          ELSE [negative |-> FALSE, magnitude |-> FloatZero]]

\* Mutation of HasKey: every key is found.
HasAnyKey(d, key) == TRUE

\* Whether d[key] finds a value
HasKey(d, key) == key \in DOMAIN d

\* get_productivity_trends, lines 170-186, from the two summaries
TrendsOf(week, today) ==
    IF week.raised # "none" THEN Raises(week.raised)
    ELSE IF today.raised # "none" THEN Raises(today.raised)
    ELSE IF ~HasKey(Get(week.value), "focus_time_minutes") THEN Raises("KeyError")
    ELSE Returns(Trends(Get(week.value), Get(today.value),
                        FloatDiv(Get(week.value).total_sessions, DaysPerWeek)))

\* DataManager.get_productivity_trends, lines 165-186
GetProductivityTrends(dm, now) ==
    CHOOSE r \in {TrendsOf(week, today) :
                     week \in {GetStatisticsSummary(dm, Some(GetThisWeekSessions(dm, now)))},
                     today \in {GetStatisticsSummary(dm, Some(GetTodaySessions(dm, now)))}} : TRUE

(* ---- notifications ---- *)

\* What an observer records of a callback: its argument and, for a session
\* completion, the engine as it is while the callback runs (engine).
Notification(kind, state, time_remaining, session) ==
    [kind |-> kind, state |-> state, time_remaining |-> time_remaining,
     session |-> session, engine |-> None]

StateChanged(state) == Notification("state_change", state, 0, None)
Ticked(time_remaining) == Notification("tick", NOT_STARTED, time_remaining, None)
SessionCompleted(session) == Notification("session_complete", session.state, 0, Some(session))

\* The fields of the engine t a session-complete callback can read.
EngineSeen(t) ==
    [session_count |-> t.session_count, daily_goal |-> t.daily_goal,
     current_session |-> t.current_session]

\* The notification n, fired while the engine is t.
Observing(n, t) == [n EXCEPT !.engine = Some(EngineSeen(t))]

(* ---- the operations, on a world w = [timer, window, data_manager, ----*)
(* ---- clock, fired]; a callback runs inside the call that fires it ---- *)

RECURSIVE NotifyStateChange(_), OnStateChange(_), UpdateDisplay(_), Tick(_, _, _)
RECURSIVE CompleteCurrentSession(_), StartWorkSession(_), StartBreakSession(_)
RECURSIVE Completion(_, _)

\* MainWindow.update_face_status, line 377: the away frame is counted
CountsAwayFrame(t) == GetState(t) = RUNNING

\* Mutation of DistractionDue: every away frame from the third on counts.
DistractionDueFromThird(away_frames) == away_frames >= 3

\* MainWindow.update_face_status, line 379
DistractionDue(away_frames) == away_frames = 3

\* MainWindow.update_face_status, lines 345-380
UpdateFaceStatus(w, result) ==
    LET seen == [w EXCEPT !.window.current_face_status = Some(result)]
    IN IF result.face_detected
       THEN [seen EXCEPT !.window.away_frames = 0]
       ELSE IF CountsAwayFrame(w.timer)
            THEN IF DistractionDue(w.window.away_frames + 1)
                 THEN [seen EXCEPT !.window.away_frames = @ + 1,
                                   !.timer.distraction_count = @ + 1]
                 ELSE [seen EXCEPT !.window.away_frames = @ + 1]
            ELSE seen

\* MainWindow.on_session_complete, lines 490-494
OnSessionComplete(w, session) ==
    [w EXCEPT !.data_manager = AddSession(@, session, w.clock)]

\* MainWindow.update_display, lines 436-443 (the rest paints widgets)
UpdateDisplay(w) ==
    IF ~IsNone(w.window.current_face_status)
    THEN Tick(w, Get(w.window.current_face_status).face_detected,
                 Get(w.window.current_face_status).focused)
    ELSE w

\* MainWindow.on_state_change, lines 496-499
OnStateChange(w) == UpdateDisplay(w)

\* PomodoroTimer._notify_state_change, lines 260-263
NotifyStateChange(w) ==
    IF w.timer.on_state_change # NO_CALLBACK /\ HasSession(w.timer)
    THEN LET told == [w EXCEPT !.fired = Append(@, StateChanged(GetState(w.timer)))]
         IN IF w.timer.on_state_change = WINDOW THEN OnStateChange(told) ELSE told
    ELSE w

\* Mutation of StartWorkSession: the seconds counted for the session before
\* are kept.
StartWorkSessionKeepsCounters(w) ==
    NotifyStateChange(
        [w EXCEPT !.timer.current_session =
                      Some(SessionStart(Session(WORK, w.timer.work_duration), w.clock)),
                  !.timer.time_remaining = w.timer.work_duration,
                  !.timer.distraction_count = 0])

\* Mutation of StartWorkSession: the distractions counted so far are kept.
StartWorkSessionKeepsDistractions(w) ==
    NotifyStateChange(
        [w EXCEPT !.timer.current_session =
                      Some(SessionStart(Session(WORK, w.timer.work_duration), w.clock)),
                  !.timer.time_remaining = w.timer.work_duration,
                  !.timer.current_session_focus_time = 0,
                  !.timer.current_session_away_time = 0])

\* PomodoroTimer.start_work_session, lines 62-75
StartWorkSession(w) ==
    NotifyStateChange(
        [w EXCEPT !.timer.current_session =
                      Some(SessionStart(Session(WORK, w.timer.work_duration), w.clock)),
                  !.timer.time_remaining = w.timer.work_duration,
                  !.timer.current_session_focus_time = 0,
                  !.timer.current_session_away_time = 0,
                  !.timer.distraction_count = 0])

\* Mutation of StartBreakSession: the per-session counters start again.
StartBreakSessionResetsCounters(w) ==
    LET is_long_break == IsLongBreak(w.timer)
        session_type == IF is_long_break THEN LONG_BREAK ELSE SHORT_BREAK
        duration == IF is_long_break THEN w.timer.long_break_duration
                                     ELSE w.timer.short_break_duration
    IN NotifyStateChange(
           [w EXCEPT !.timer.current_session =
                         Some(SessionStart(Session(session_type, duration), w.clock)),
                     !.timer.time_remaining = duration,
                     !.timer.current_session_focus_time = 0,
                     !.timer.current_session_away_time = 0])

\* PomodoroTimer.start_break_session, lines 77-94
StartBreakSession(w) ==
    LET is_long_break == IsLongBreak(w.timer)
        session_type == IF is_long_break THEN LONG_BREAK ELSE SHORT_BREAK
        duration == IF is_long_break THEN w.timer.long_break_duration
                                     ELSE w.timer.short_break_duration
    IN NotifyStateChange(
           [w EXCEPT !.timer.current_session =
                         Some(SessionStart(Session(session_type, duration), w.clock)),
                     !.timer.time_remaining = duration])

\* PomodoroTimer.pause, lines 96-101
Pause(w, is_away) ==
    IF PauseEnabled(w.timer)
    THEN NotifyStateChange([w EXCEPT !.timer = PauseSession(@, is_away)])
    ELSE w

\* PomodoroTimer.resume, lines 103-110
Resume(w) ==
    IF ResumeEnabled(w.timer)
    THEN NotifyStateChange([w EXCEPT !.timer = ResumeSession(@)])
    ELSE w

\* PomodoroTimer.stop, lines 112-118
Stop(w) ==
    IF HasSession(w.timer)
    THEN NotifyStateChange([w EXCEPT !.timer = StopSession(@)])
    ELSE w

\* Mutation of CompleteCurrentSession: the callback runs once the counters
\* are updated.
CompleteCurrentSessionNotifiesLast(w) ==
    IF ~HasSession(w.timer)
    THEN w
    ELSE LET done == SessionComplete(Get(w.timer.current_session),
                                     CompletionStatistics(w.timer), w.clock)
             completed == [w EXCEPT !.timer.current_session = Some(done)]
             counted == IF done.session_type = WORK
                        THEN [completed EXCEPT
                                 !.timer.session_count = @ + 1,
                                 !.timer.daily_goal =
                                     DailyGoalIncrement(DailyGoalResetIfNewDay(@, w.clock))]
                        ELSE completed
             told == IF w.timer.on_session_complete = NO_CALLBACK
                     THEN counted
                     ELSE LET logged == [counted EXCEPT
                                            !.fired = Append(@, Observing(SessionCompleted(done),
                                                                          counted.timer))]
                          IN IF w.timer.on_session_complete = WINDOW
                             THEN OnSessionComplete(logged, done)
                             ELSE logged
         IN IF done.session_type = WORK
            THEN StartBreakSession(told)
            ELSE StartWorkSession(told)

\* _complete_current_session, lines 173-199, with the session as completed
Completion(w, done) ==
    LET completed == [w EXCEPT !.timer.current_session = Some(done)]
        told == IF w.timer.on_session_complete = NO_CALLBACK
                THEN completed
                ELSE LET logged == [completed EXCEPT
                                       !.fired = Append(@, Observing(SessionCompleted(done),
                                                                     completed.timer))]
                     IN IF w.timer.on_session_complete = WINDOW
                        THEN OnSessionComplete(logged, done)
                        ELSE logged
    IN IF done.session_type = WORK
       THEN StartBreakSession(
                [told EXCEPT !.timer.session_count = @ + 1,
                             !.timer.daily_goal =
                                 DailyGoalIncrement(DailyGoalResetIfNewDay(@, w.clock))])
       ELSE StartWorkSession(told)

\* PomodoroTimer._complete_current_session, lines 161-199 (the statistics
\* are computed once)
CompleteCurrentSession(w) ==
    IF ~HasSession(w.timer)
    THEN w
    ELSE CHOOSE r \in {Completion(v, done) :
                          v \in {w},
                          done \in {SessionComplete(Get(w.timer.current_session),
                                                    CompletionStatistics(w.timer),
                                                    w.clock)}} : TRUE

\* Mutation of Tick: a second of a work session counts as focus only when
\* the user is focused as well as present.
TickFocusedOnly(w, user_present, user_focused) ==
    IF ~TickEnabled(w.timer)
    THEN w
    ELSE LET counted == [w EXCEPT !.timer = TickCount(@, user_present /\ user_focused)]
             checked == IF SessionOver(counted.timer)
                        THEN CompleteCurrentSession(counted)
                        ELSE counted
         IN IF checked.timer.on_tick # NO_CALLBACK
            THEN [checked EXCEPT !.fired = Append(@, Ticked(checked.timer.time_remaining))]
            ELSE checked

\* Mutation of Tick: the tick notification is fired before the completion is
\* handled, with the time_remaining the count left.
TickNotifiesFirst(w, user_present, user_focused) ==
    IF ~TickEnabled(w.timer)
    THEN w
    ELSE LET counted == [w EXCEPT !.timer = TickCount(@, user_present)]
             told == IF counted.timer.on_tick # NO_CALLBACK
                     THEN [counted EXCEPT
                              !.fired = Append(@, Ticked(counted.timer.time_remaining))]
                     ELSE counted
         IN IF SessionOver(told.timer)
            THEN CompleteCurrentSession(told)
            ELSE told

\* PomodoroTimer.tick, lines 120-159
Tick(w, user_present, user_focused) ==
    IF ~TickEnabled(w.timer)
    THEN w
    ELSE LET counted == [w EXCEPT !.timer = TickCount(@, user_present)]
             checked == IF SessionOver(counted.timer)
                        THEN CompleteCurrentSession(counted)
                        ELSE counted
         IN IF checked.timer.on_tick # NO_CALLBACK
            THEN [checked EXCEPT !.fired = Append(@, Ticked(checked.timer.time_remaining))]
            ELSE checked

\* Mutation of SetDurationsAllowed: any current session refuses the change.
SetDurationsAllowedIdle(t) == ~HasSession(t)

\* PomodoroTimer.set_durations, line 204
SetDurationsAllowed(t) == ~(HasSession(t) /\ GetState(t) = RUNNING)

\* Mutation of SetDurations: time_remaining follows the new work_duration
\* with a paused session too.
SetDurationsResetsTime(t, work_minutes, short_break_minutes, long_break_minutes) ==
    IF ~SetDurationsAllowed(t)
    THEN t
    ELSE [t EXCEPT !.work_duration = work_minutes * SecondsPerMinute,
                   !.short_break_duration = short_break_minutes * SecondsPerMinute,
                   !.long_break_duration =
                       IF ~IsNone(long_break_minutes) /\ Get(long_break_minutes) # 0
                       THEN Get(long_break_minutes) * SecondsPerMinute
                       ELSE @,
                   !.time_remaining = work_minutes * SecondsPerMinute]

\* PomodoroTimer.set_durations, lines 201-221; long_break_minutes is Optional
SetDurations(t, work_minutes, short_break_minutes, long_break_minutes) ==
    IF ~SetDurationsAllowed(t)
    THEN t
    ELSE LET d == [t EXCEPT !.work_duration = work_minutes * SecondsPerMinute,
                            !.short_break_duration = short_break_minutes * SecondsPerMinute,
                            !.long_break_duration =
                                IF ~IsNone(long_break_minutes) /\ Get(long_break_minutes) # 0
                                THEN Get(long_break_minutes) * SecondsPerMinute
                                ELSE @]
         IN IF ~HasSession(d)
            THEN [d EXCEPT !.time_remaining = d.work_duration]
            ELSE d

\* PomodoroTimer.set_daily_goal, lines 223-226
SetDailyGoal(t, goal) == [t EXCEPT !.daily_goal.target_sessions = goal]

(* ---- actions ---- *)

World == [timer |-> timer, window |-> window, data_manager |-> data_manager,
          clock |-> clock, fired |-> <<>>]

Elapsed(t) == t.total_focus_time + t.total_break_time + t.total_away_time

Call(name, args, ret) == [name |-> name, args |-> args, ret |-> ret]

Commit(w, call) ==
    /\ timer' = w.timer
    /\ window' = w.window
    /\ data_manager' = w.data_manager
    /\ fired' = w.fired
    /\ op' = call
    /\ UNCHANGED <<clock, absences, saving>>

\* MainWindow.__init__, lines 59-60, and the spin boxes of create_left_panel
MainWindow(t) ==
    [current_face_status |-> None,
     away_frames |-> 0,
     start_btn |-> TRUE,
     pause_btn |-> FALSE,
     work_spinbox |-> t.work_duration \div SecondsPerMinute,
     break_spinbox |-> t.short_break_duration \div SecondsPerMinute,
     long_break_spinbox |-> t.long_break_duration \div SecondsPerMinute,
     goal_spinbox |-> t.daily_goal.target_sessions]

\* DataManager.__init__ with no history file
DataManager == NewDataManager(NoFile).data_manager

\* The engine on its own: every callback is an observer.
Init ==
    /\ clock = 0
    /\ timer = [PomodoroTimer(1, 1, MaxMinutes, SessionsUntilLongBreak, MaxGoal, 0)
                    EXCEPT !.on_session_complete = OBSERVER,
                           !.on_tick = OBSERVER,
                           !.on_state_change = OBSERVER]
    /\ window = MainWindow(timer)
    /\ data_manager = DataManager
    /\ fired = <<>>
    /\ op = Call("__init__", <<>>, "None")
    /\ absences = <<>>
    /\ saving = None

start_work_session ==
    Commit(StartWorkSession(World), Call("start_work_session", <<>>, "None"))

start_break_session ==
    Commit(StartBreakSession(World), Call("start_break_session", <<>>, "None"))

pause ==
    \E is_away \in BOOLEAN :
        Commit(Pause(World, is_away), Call("pause", <<is_away>>, "None"))

resume ==
    Commit(Resume(World), Call("resume", <<>>, "None"))

stop ==
    Commit(Stop(World), Call("stop", <<>>, "None"))

tick ==
    /\ Elapsed(timer) < MaxTime
    /\ \E user_present \in BOOLEAN, user_focused \in BOOLEAN :
           Commit(Tick(World, user_present, user_focused),
                  Call("tick", <<user_present, user_focused>>, "None"))

\* The arguments set_durations is called with: each duration at its least
\* and at its greatest, the long break given or omitted.
DurationSettings ==
    {<<1, 1, None>>, <<1, MaxMinutes, Some(1)>>,
     <<MaxMinutes, 1, Some(MaxMinutes)>>, <<MaxMinutes, MaxMinutes, None>>}

set_durations ==
    \E arguments \in DurationSettings :
        Commit([World EXCEPT !.timer = SetDurations(@, arguments[1], arguments[2],
                                                    arguments[3])],
               Call("set_durations", arguments,
                    IF SetDurationsAllowed(timer) THEN "True" ELSE "False"))

\* The targets set_daily_goal is called with: the least and the greatest.
GoalSettings == {1, MaxGoal}

set_daily_goal ==
    \E goal \in GoalSettings :
        Commit([World EXCEPT !.timer = SetDailyGoal(@, goal)],
               Call("set_daily_goal", <<goal>>, "None"))

\* The calendar date changes.
midnight ==
    /\ clock < MaxDay
    /\ clock' = clock + 1
    /\ fired' = <<>>
    /\ op' = Call("midnight", <<>>, "None")
    /\ UNCHANGED <<timer, window, data_manager, absences, saving>>

Next ==
    \/ start_work_session
    \/ start_break_session
    \/ pause
    \/ resume
    \/ stop
    \/ tick

Spec == Init /\ [][Next]_vars

\* The engine with its durations changed between calls.
SettingsNext ==
    \/ start_work_session
    \/ start_break_session
    \/ pause
    \/ resume
    \/ stop
    \/ Elapsed(timer) < MaxSettingsTime /\ tick
    \/ set_durations

SettingsSpec == Init /\ [][SettingsNext]_vars

\* The engine with the date advancing and the goal changed between calls.
DayNext ==
    \/ Elapsed(timer) < MaxDayTime /\ Next
    \/ set_daily_goal
    \/ midnight

DaySpec == Init /\ [][DayNext]_vars

(* ---- one long work session and the break after it ---- *)

StatisticsInit ==
    /\ clock = 0
    /\ timer = [PomodoroTimer(StatisticsMinutes, 1, 1, SessionsUntilLongBreak, MaxGoal, 0)
                    EXCEPT !.on_session_complete = OBSERVER,
                           !.on_tick = OBSERVER,
                           !.on_state_change = OBSERVER]
    /\ window = MainWindow(timer)
    /\ data_manager = DataManager
    /\ fired = <<>>
    /\ op = Call("__init__", <<>>, "None")
    /\ absences = <<>>
    /\ saving = None

\* No break has been completed yet.
FirstRound(t) == t.total_break_time = 0 \/ (TickEnabled(t) /\ GetSessionType(t) # Some(WORK))

first_start ==
    /\ Elapsed(timer) = 0
    /\ ~HasSession(timer)
    /\ start_work_session

first_tick ==
    /\ FirstRound(timer)
    /\ Elapsed(timer) < MaxStatisticsTime
    /\ \E user_present \in BOOLEAN, user_focused \in BOOLEAN :
           Commit(Tick(World, user_present, user_focused),
                  Call("tick", <<user_present, user_focused>>, "None"))

first_stop ==
    /\ FirstRound(timer)
    /\ HasSession(timer)
    /\ stop

first_break ==
    /\ timer.total_break_time = 0
    /\ ~HasSession(timer)
    /\ start_break_session

StatisticsNext ==
    \/ first_start
    \/ first_tick
    \/ first_stop
    \/ first_break

StatisticsSpec == StatisticsInit /\ [][StatisticsNext]_vars

(* ---- the application: MainWindow drives the engine ---- *)

\* PomodoroTimer.__init__, line 23: MainWindow passes no sessions_until_long_break
DefaultSessionsUntilLongBreak == 4

\* FaceDetector.detect: focused is reported only with a detected face
FaceDetectionResult ==
    {[face_detected |-> TRUE, focused |-> TRUE],
     [face_detected |-> TRUE, focused |-> FALSE],
     [face_detected |-> FALSE, focused |-> FALSE]}

\* MainWindow.__init__, lines 46-68
AppInit ==
    /\ clock = 0
    /\ timer = [PomodoroTimer(1, 1, MaxMinutes, DefaultSessionsUntilLongBreak, MaxGoal, 0)
                    EXCEPT !.on_session_complete = WINDOW,
                           !.on_state_change = WINDOW]
    /\ window = MainWindow(timer)
    /\ data_manager = DataManager
    /\ fired = <<>>
    /\ op = Call("__init__", <<>>, "None")
    /\ absences = <<>>
    /\ saving = None

\* CameraService.face_status -> MainWindow.update_face_status
update_face_status ==
    /\ Len(absences) < MaxAwayFrames
    /\ timer.distraction_count < MaxDistractions
    /\ \E result \in FaceDetectionResult :
           LET w == UpdateFaceStatus(World, result)
           IN /\ timer' = w.timer
              /\ window' = w.window
              /\ data_manager' = w.data_manager
              /\ fired' = w.fired
              /\ op' = Call("update_face_status",
                            <<result.face_detected, result.focused>>, "None")
              /\ absences' = IF result.face_detected
                             THEN <<>>
                             ELSE Append(absences, GetState(timer) = RUNNING)
              /\ UNCHANGED <<clock, saving>>

\* MainWindow.start_timer, lines 387-394; the button is clickable while enabled
start_timer ==
    /\ window.start_btn
    /\ Elapsed(timer) < MaxAppTime
    /\ LET started == IF GetState(timer) = NOT_STARTED
                      THEN StartWorkSession(World)
                      ELSE World
       IN Commit([started EXCEPT !.window.start_btn = FALSE,
                                 !.window.pause_btn = TRUE],
                 Call("start_timer", <<>>, "None"))

\* MainWindow.pause_timer, lines 396-405
pause_timer ==
    /\ window.pause_btn
    /\ Elapsed(timer) < MaxAppTime
    /\ LET state == GetState(timer)
       IN Commit(IF state = RUNNING
                 THEN Pause(World, FALSE)
                 ELSE IF state \in {PAUSED, PAUSED_AWAY}
                      THEN Resume(World)
                      ELSE World,
                 Call("pause_timer", <<>>, "None"))

\* MainWindow.reset_timer, lines 407-415
reset_timer ==
    /\ Elapsed(timer) < MaxAppTime
    /\ LET stopped == Stop(World)
       IN Commit(UpdateDisplay([stopped EXCEPT !.window.start_btn = TRUE,
                                               !.window.pause_btn = FALSE]),
                 Call("reset_timer", <<>>, "None"))

\* QTimer.timeout -> MainWindow.update_display, lines 76-78 and 436-443
update_display ==
    /\ Elapsed(timer) < MaxAppTime
    /\ Commit(UpdateDisplay(World), Call("update_display", <<>>, "None"))

\* A duration spin box changes value -> MainWindow.update_timer_settings,
\* lines 417-429
update_timer_settings ==
    \E box \in {"work_spinbox", "break_spinbox", "long_break_spinbox"},
       minutes \in 1..MaxMinutes :
        /\ window[box] # minutes
        /\ LET changed == [window EXCEPT ![box] = minutes]
           IN Commit([World EXCEPT !.window = changed,
                                   !.timer = SetDurations(@, changed.work_spinbox,
                                                          changed.break_spinbox,
                                                          Some(changed.long_break_spinbox))],
                     Call("update_timer_settings", <<box, minutes>>,
                          IF SetDurationsAllowed(timer) THEN "True" ELSE "False"))

\* The goal spin box changes value -> MainWindow.update_goal, lines 431-434
update_goal ==
    /\ Elapsed(timer) < MaxAppSettingsTime
    /\ \E goal \in 1..MaxGoal :
           /\ window.goal_spinbox # goal
           /\ Commit(UpdateDisplay([World EXCEPT !.window.goal_spinbox = goal,
                                                 !.timer = SetDailyGoal(@, goal)]),
                     Call("update_goal", <<goal>>, "None"))

AppNext ==
    \/ update_face_status
    \/ start_timer
    \/ pause_timer
    \/ reset_timer
    \/ update_display

AppSpec == AppInit /\ [][AppNext]_vars

\* The application with its settings changed between the other events.
AppSettingsNext ==
    \/ Elapsed(timer) < MaxAppSettingsTime /\ AppNext
    \/ update_timer_settings
    \/ update_goal

AppSettingsSpec == AppInit /\ [][AppSettingsNext]_vars

(* ---- the history store, from one run of the program to the next ---- *)

\* The focus_percentage of a minute with the user present throughout.
FullFocus == FocusPercentage(SecondsPerMinute, 0)

\* A session of one minute completed on the date it was started.
Finished(session_type, date) ==
    SessionComplete(SessionStart(Session(session_type, SecondsPerMinute), date),
                    SessionStatistics(SecondsPerMinute, SecondsPerMinute, 0, 0, FullFocus),
                    date)

\* The record d without the key.
WithoutKey(d, key) == [k \in DOMAIN d \ {key} |-> d[k]]

SessionChunk(d) == [chunk |-> "session", value |-> d]

\* The history file a run can find: none; an empty one; documents with no,
\* one and two sessions; a document with a record that lacks 'state' after a
\* good one, and one with an unknown session_type before a good one; a
\* document cut short; a JSON text that is not an object.
StartupFiles ==
    {NoFile,
     File(<<>>),
     File(Document(<<>>, 0)),
     File(Document(<<Finished(WORK, 0)>>, 0)),
     File(Document(<<Finished(WORK, 0), Finished(SHORT_BREAK, 0)>>, 0)),
     File(<<[chunk |-> "open"],
            SessionChunk(SessionToDict(Finished(WORK, 0))),
            SessionChunk(WithoutKey(SessionToDict(Finished(SHORT_BREAK, 0)), "state")),
            [chunk |-> "close", last_updated |-> IsoFormat(0), total_sessions |-> 2]>>),
     File(<<[chunk |-> "open"],
            SessionChunk([SessionToDict(Finished(WORK, 0)) EXCEPT !.session_type = "nap"]),
            SessionChunk(SessionToDict(Finished(SHORT_BREAK, 0))),
            [chunk |-> "close", last_updated |-> IsoFormat(0), total_sessions |-> 2]>>),
     File(<<[chunk |-> "open"], SessionChunk(SessionToDict(Finished(WORK, 0)))>>),
     File(<<[chunk |-> "value"]>>)}

\* The sessions add_session is called with: a completed work session, a
\* completed break, and a running session, which has no statistics.
AddedSessions(now) ==
    {Finished(WORK, now), Finished(SHORT_BREAK, now),
     SessionStart(Session(WORK, SecondsPerMinute), now)}

\* The engine completes a break only after a work session: the last session
\* of the history is a work session.
AfterWork(sessions) ==
    /\ sessions # <<>>
    /\ sessions[Len(sessions)].session_type = WORK

\* The outcome of DataManager.__init__ as a return value
Returned(made) == IF made.raised = "none" THEN "None" ELSE made.raised

HistoryInit ==
    /\ clock = 0
    /\ timer = PomodoroTimer(1, 1, MaxMinutes, DefaultSessionsUntilLongBreak, MaxGoal, 0)
    /\ window = MainWindow(timer)
    /\ \E file \in StartupFiles :
           /\ data_manager = NewDataManager(file).data_manager
           /\ op = Call("__init__", <<>>, Returned(NewDataManager(file)))
    /\ fired = <<>>
    /\ absences = <<>>
    /\ saving = None

\* save_history, lines 63-64: what the call returns when open or a write
\* raises OSError
SaveFailure == IF IsException("OSError") THEN "None" ELSE "OSError"

\* save_history, line 59, on the way to leaving the manager as target:
\* open(history_file, 'w') empties the file, or fails and leaves it
BeginSave(target, opened) ==
    IF opened
    THEN /\ data_manager' = [target EXCEPT !.history_file = File(<<>>)]
         /\ saving' = Some(target.history_file.content)
    ELSE /\ data_manager' = [target EXCEPT !.history_file = data_manager.history_file]
         /\ saving' = None

\* DataManager.add_session, up to the opening of the file
add_session ==
    /\ saving = None
    /\ Len(data_manager.sessions) < MaxHistory
    /\ \E session \in AddedSessions(clock), opened \in BOOLEAN :
           /\ session.session_type = WORK \/ AfterWork(data_manager.sessions)
           /\ IF AddSession(data_manager, session, clock) = data_manager
              THEN opened /\ UNCHANGED <<data_manager, saving>>
              ELSE BeginSave(AddSession(data_manager, session, clock), opened)
           /\ op' = Call("add_session", <<session>>,
                         IF opened THEN "None" ELSE SaveFailure)
    /\ UNCHANGED <<timer, window, clock, fired, absences>>

\* MainWindow.closeEvent, line 588: save_history, up to the opening of the file
save_history ==
    /\ saving = None
    /\ \E opened \in BOOLEAN :
           /\ BeginSave(SaveHistory(data_manager, clock), opened)
           /\ op' = Call("save_history", <<>>, IF opened THEN "None" ELSE SaveFailure)
    /\ UNCHANGED <<timer, window, clock, fired, absences>>

\* DataManager.clear_old_sessions, up to the opening of the file
clear_old_sessions ==
    /\ saving = None
    /\ \E days_to_keep \in 0..MaxDay, opened \in BOOLEAN :
           LET kept == RecentSessions(data_manager.sessions, days_to_keep, clock)
               removed_count == Len(data_manager.sessions) - Len(kept)
           IN /\ IF removed_count > 0
                 THEN BeginSave(SaveHistory([data_manager EXCEPT !.sessions = kept], clock),
                                opened)
                 ELSE opened /\ UNCHANGED <<data_manager, saving>>
              /\ op' = Call("clear_old_sessions", <<days_to_keep>>, removed_count)
    /\ UNCHANGED <<timer, window, clock, fired, absences>>

\* json.dump, line 60: the next chunk of the text reaches the file
write ==
    /\ ~IsNone(saving)
    /\ Get(saving) # <<>>
    /\ data_manager' = [data_manager EXCEPT
                           !.history_file.content = Append(@, Head(Get(saving)))]
    /\ saving' = Some(Tail(Get(saving)))
    /\ UNCHANGED <<timer, window, clock, fired, op, absences>>

\* save_history, lines 59-62: the text is written, the file is closed
close ==
    /\ saving = Some(<<>>)
    /\ saving' = None
    /\ UNCHANGED <<timer, window, data_manager, clock, fired, op, absences>>

\* save_history, lines 63-64: a write fails, the error is logged
write_fails ==
    /\ ~IsNone(saving)
    /\ Get(saving) # <<>>
    /\ saving' = None
    /\ op' = IF SaveFailure = "None" THEN op ELSE [op EXCEPT !.ret = SaveFailure]
    /\ UNCHANGED <<timer, window, data_manager, clock, fired, absences>>

\* The process ends, at any point, and the program is run again:
\* DataManager.__init__ with the file as it was left
restart ==
    /\ data_manager' = NewDataManager(data_manager.history_file).data_manager
    /\ op' = Call("__init__", <<>>, Returned(NewDataManager(data_manager.history_file)))
    /\ saving' = None
    /\ UNCHANGED <<timer, window, clock, fired, absences>>

HistoryNext ==
    \/ add_session
    \/ save_history
    \/ clear_old_sessions
    \/ write
    \/ close
    \/ write_fails
    \/ restart
    \/ saving = None /\ midnight

HistorySpec == HistoryInit /\ [][HistoryNext]_vars

(* ---- the history and its summaries ---- *)

\* The focus_percentage of a one-minute work session by its seconds away.
FocusAway == [away_time \in 0..SecondsPerMinute |-> FocusPercentage(SecondsPerMinute, away_time)]

\* A one-minute session completed on the date it was started, with the
\* user away for away_time seconds and distracted once if away at all.
Completed(session_type, away_time, date) ==
    SessionComplete(SessionStart(Session(session_type, SecondsPerMinute), date),
                    SessionStatistics(SecondsPerMinute, SecondsPerMinute, away_time,
                                      IF away_time > 0 THEN 1 ELSE 0, FocusAway[away_time]),
                    date)

\* The sessions the engine hands over: work sessions with the user never
\* away and away for a minute, and a break.
CompletedSessions(now) ==
    {Completed(WORK, away_time, now) : away_time \in {0, SecondsPerMinute}}
        \cup {Completed(SHORT_BREAK, 0, now)}

SummaryInit ==
    /\ clock = 0
    /\ timer = PomodoroTimer(1, 1, MaxMinutes, DefaultSessionsUntilLongBreak, MaxGoal, 0)
    /\ window = MainWindow(timer)
    /\ data_manager = DataManager
    /\ fired = <<>>
    /\ op = Call("__init__", <<>>, Returns("None"))
    /\ absences = <<>>
    /\ saving = None

\* MainWindow.on_session_complete: the engine hands over a completed session
on_session_complete ==
    /\ Len(data_manager.sessions) < MaxHistory
    /\ \E session \in CompletedSessions(clock) :
           /\ session.session_type = WORK \/ AfterWork(data_manager.sessions)
           /\ Commit(OnSessionComplete(World, session),
                     Call("on_session_complete", <<session>>, Returns("None")))

\* The lists get_statistics_summary is called with: none (the default),
\* today's sessions, this week's sessions.
SummaryArguments ==
    {None, Some(GetTodaySessions(data_manager, clock)),
     Some(GetThisWeekSessions(data_manager, clock))}

get_statistics_summary ==
    /\ \E sessions \in SummaryArguments :
           op' = Call("get_statistics_summary", <<sessions>>,
                      GetStatisticsSummary(data_manager, sessions))
    /\ UNCHANGED <<timer, window, data_manager, clock, fired, absences, saving>>

get_productivity_trends ==
    /\ op' = Call("get_productivity_trends", <<>>, GetProductivityTrends(data_manager, clock))
    /\ UNCHANGED <<timer, window, data_manager, clock, fired, absences, saving>>

\* The date changes.
next_day ==
    /\ clock < MaxDay
    /\ clock' = clock + 1
    /\ op' = Call("midnight", <<>>, Returns("None"))
    /\ UNCHANGED <<timer, window, data_manager, fired, absences, saving>>

SummaryNext ==
    \/ on_session_complete
    \/ get_statistics_summary
    \/ get_productivity_trends
    \/ next_day

SummarySpec == SummaryInit /\ [][SummaryNext]_vars

(* ---- the engine driven by the one-second timer alone ---- *)

\* The seconds counted down so far.
CountedDown(t) == t.total_focus_time + t.total_break_time

\* The first start: MainWindow.start_timer with no session
first_work_session == ~HasSession(timer) /\ start_work_session

\* MainWindow.update_display, once a second, with the user in front of the camera
present_tick ==
    /\ CountedDown(timer) < MaxLiveTime
    /\ \E user_focused \in BOOLEAN :
           \E w \in {Tick(World, TRUE, user_focused)} :
               Commit(w, Call("tick", <<TRUE, user_focused>>, "None"))

\* MainWindow.update_display, once a second, with nobody in front of the camera
absent_tick ==
    /\ IF TickEnabled(timer) /\ GetSessionType(timer) = Some(WORK)
       THEN timer.total_away_time < MaxLiveAway
       ELSE CountedDown(timer) < MaxLiveTime
    /\ Commit(Tick(World, FALSE, FALSE), Call("tick", <<FALSE, FALSE>>, "None"))

LiveNext ==
    \/ first_work_session
    \/ present_tick
    \/ absent_tick

\* The driver keeps ticking and the user is present on infinitely many ticks.
LiveSpec == Init /\ [][LiveNext]_vars /\ WF_vars(present_tick)

(* ---- properties ---- *)

Breaks == {SHORT_BREAK, LONG_BREAK}

IsRunning(t, types) ==
    /\ TickEnabled(t)
    /\ Get(t.current_session).session_type \in types

Planned(t) == Get(t.current_session).planned_duration

\* The sessions handed to on_session_complete by the last operation.
CompletedBy(f) ==
    LET told == SelectSeq(f, LAMBDA n : n.kind = "session_complete")
    IN [i \in 1..Len(told) |-> Get(told[i].session)]

TickCalled(user_present) ==
    /\ op'.name = "tick"
    /\ op'.args[1] \in user_present

\* The break start_break_session selects for the engine t.
SelectedBreak(t) ==
    IF t.session_count % t.sessions_until_long_break = 0 /\ t.session_count > 0
    THEN [session_type |-> LONG_BREAK, duration |-> t.long_break_duration]
    ELSE [session_type |-> SHORT_BREAK, duration |-> t.short_break_duration]

\* C1: in a running WORK session of planned duration D that has counted no
\* away second, every tick with the user present takes one second off
\* time_remaining, which is D minus the ticks applied so far; the D-th such
\* tick hands over that session COMPLETED with statistics total_duration = D,
\* focus_time = D, away_time = 0, focus_percentage = 100, and leaves a RUNNING
\* break (short or long as selected) with time_remaining = its duration.
C1_WorkCountdown ==
    [][(/\ TickCalled({TRUE})
        /\ IsRunning(timer, {WORK})
        /\ timer.current_session_away_time = 0)
       => LET D == Planned(timer)
              k == timer.current_session_focus_time + 1
              done == CompletedBy(fired')
          IN IF k < D
             THEN /\ timer'.time_remaining = timer.time_remaining - 1
                  /\ timer'.time_remaining = D - k
                  /\ timer'.current_session = timer.current_session
                  /\ done = <<>>
             ELSE /\ k = D
                  /\ Len(done) = 1
                  /\ done[1].session_type = WORK
                  /\ done[1].state = COMPLETED
                  /\ done[1].planned_duration = D
                  /\ Len(done[1].statistics) = 1
                  /\ LET st == done[1].statistics[1]
                     IN /\ st.total_duration = D
                        /\ st.focus_time = D
                        /\ st.away_time = 0
                        /\ st.focus_percentage = FloatOfInt(100)
                  /\ IsRunning(timer', Breaks)
                  /\ Get(timer'.current_session).session_type = SelectedBreak(timer').session_type
                  /\ Planned(timer') = SelectedBreak(timer').duration
                  /\ timer'.time_remaining = Planned(timer')]_vars

\* The D-th present tick of a work session has completed it and a long break
\* is running with its full duration.
C1_Witness ==
    /\ op.name = "tick"
    /\ op.args[1]
    /\ Len(CompletedBy(fired)) = 1
    /\ CompletedBy(fired)[1].session_type = WORK
    /\ CompletedBy(fired)[1].statistics[1].away_time = 0
    /\ CompletedBy(fired)[1].statistics[1].focus_time
           = CompletedBy(fired)[1].planned_duration
    /\ IsRunning(timer, {LONG_BREAK})
    /\ timer.time_remaining = timer.long_break_duration

\* C2: a tick with the user present on a running WORK session takes exactly
\* one second off time_remaining and adds exactly one to total_focus_time and
\* current_session_focus_time; when that brings time_remaining to 0 the
\* session handed over carries the incremented focus time.
C2_PresentWorkTick ==
    [][(TickCalled({TRUE}) /\ IsRunning(timer, {WORK}))
       => /\ timer'.total_focus_time = timer.total_focus_time + 1
          /\ timer'.current_session_focus_time = timer.current_session_focus_time + 1
          /\ timer'.total_away_time = timer.total_away_time
          /\ timer'.current_session_away_time = timer.current_session_away_time
          /\ timer'.total_break_time = timer.total_break_time
          /\ IF timer.time_remaining - 1 > 0
             THEN /\ timer'.time_remaining = timer.time_remaining - 1
                  /\ CompletedBy(fired') = <<>>
             ELSE /\ timer.time_remaining - 1 = 0
                  /\ Len(CompletedBy(fired')) = 1
                  /\ CompletedBy(fired')[1].statistics[1].focus_time
                         = timer.current_session_focus_time + 1]_vars

\* A present tick has been counted in a work session that is still running.
C2_Witness ==
    /\ op.name = "tick"
    /\ op.args[1]
    /\ IsRunning(timer, {WORK})
    /\ timer.current_session_focus_time > 0
    /\ timer.current_session_away_time > 0
    /\ timer.time_remaining = Planned(timer) - timer.current_session_focus_time

\* C3: a tick with the user absent on a running WORK session leaves
\* time_remaining, the focus counters and total_break_time unchanged, adds
\* exactly one to total_away_time and current_session_away_time, and does not
\* complete the session.
C3_AbsentWorkTick ==
    [][(TickCalled({FALSE}) /\ IsRunning(timer, {WORK}))
       => /\ timer'.time_remaining = timer.time_remaining
          /\ timer'.total_away_time = timer.total_away_time + 1
          /\ timer'.current_session_away_time = timer.current_session_away_time + 1
          /\ timer'.total_focus_time = timer.total_focus_time
          /\ timer'.current_session_focus_time = timer.current_session_focus_time
          /\ timer'.total_break_time = timer.total_break_time
          /\ timer'.current_session = timer.current_session
          /\ timer'.session_count = timer.session_count
          /\ CompletedBy(fired') = <<>>]_vars

\* An absent tick has been counted on a work session with one second left.
C3_Witness ==
    /\ op.name = "tick"
    /\ ~op.args[1]
    /\ IsRunning(timer, {WORK})
    /\ timer.current_session_away_time >= 2
    /\ timer.time_remaining = 1

\* The tick called on the engine brings time_remaining to 0.
ReachesZero(user_present) ==
    /\ TickEnabled(timer)
    /\ timer.time_remaining = 1
    /\ \/ Get(timer.current_session).session_type \in Breaks
       \/ user_present

\* C4 as claimed: every tick on a running break, whatever present and
\* focused are, takes one second off time_remaining (completing the break
\* when that was the last one) and adds one to total_break_time, and leaves
\* the cumulative and per-session focus and away counters unchanged.
C4_AsClaimed ==
    [][(TickCalled(BOOLEAN) /\ IsRunning(timer, Breaks))
       => /\ \/ timer'.time_remaining = timer.time_remaining - 1
             \/ timer.time_remaining - 1 = 0 /\ Len(CompletedBy(fired')) = 1
          /\ timer'.total_break_time = timer.total_break_time + 1
          /\ timer'.total_focus_time = timer.total_focus_time
          /\ timer'.total_away_time = timer.total_away_time
          /\ timer'.current_session_focus_time = timer.current_session_focus_time
          /\ timer'.current_session_away_time = timer.current_session_away_time]_vars

\* C4 (amended): every tick on a running break, whatever present and focused
\* are, adds exactly one to total_break_time and leaves the cumulative focus
\* and away counters unchanged; while more than one second remains it takes
\* exactly one second off time_remaining and leaves the per-session counters
\* unchanged; the tick that takes the last second completes the break with
\* the per-session counters as they were in its statistics and starts a work
\* session, which sets time_remaining to work_duration and the per-session
\* counters to 0.
C4_BreakTick ==
    [][(TickCalled(BOOLEAN) /\ IsRunning(timer, Breaks))
       => /\ timer'.total_break_time = timer.total_break_time + 1
          /\ timer'.total_focus_time = timer.total_focus_time
          /\ timer'.total_away_time = timer.total_away_time
          /\ IF timer.time_remaining - 1 > 0
             THEN /\ timer'.time_remaining = timer.time_remaining - 1
                  /\ timer'.current_session_focus_time = timer.current_session_focus_time
                  /\ timer'.current_session_away_time = timer.current_session_away_time
                  /\ timer'.current_session = timer.current_session
                  /\ CompletedBy(fired') = <<>>
             ELSE /\ timer.time_remaining - 1 = 0
                  /\ Len(CompletedBy(fired')) = 1
                  /\ CompletedBy(fired')[1].session_type
                         = Get(timer.current_session).session_type
                  /\ CompletedBy(fired')[1].statistics[1].focus_time
                         = timer.current_session_focus_time
                  /\ CompletedBy(fired')[1].statistics[1].away_time
                         = timer.current_session_away_time
                  /\ IsRunning(timer', {WORK})
                  /\ timer'.time_remaining = timer.work_duration
                  /\ timer'.current_session_focus_time = 0
                  /\ timer'.current_session_away_time = 0]_vars

\* A tick with the user absent has taken a second off a running break that
\* followed a work session with focus and away time.
C4_Witness ==
    /\ op.name = "tick"
    /\ ~op.args[1]
    /\ IsRunning(timer, Breaks)
    /\ timer.time_remaining = Planned(timer) - 1
    /\ timer.total_break_time > 0
    /\ timer.current_session_focus_time > 0
    /\ timer.current_session_away_time > 0

\* C5: tick or pause called with no session or a session that is not
\* RUNNING, and resume called with no session or a session that is neither
\* PAUSED nor PAUSED_AWAY, leave the engine exactly as it was and invoke no
\* callback.
C5_NoOpCalls ==
    [][(\/ op'.name \in {"tick", "pause"} /\ GetState(timer) # RUNNING
        \/ op'.name = "resume" /\ GetState(timer) \notin {PAUSED, PAUSED_AWAY})
       => /\ timer' = timer
          /\ fired' = <<>>]_vars

\* tick has been called on a session paused for absence, with seconds
\* already counted, and did nothing.
C5_Witness ==
    /\ op.name = "tick"
    /\ GetState(timer) = PAUSED_AWAY
    /\ fired = <<>>
    /\ timer.time_remaining < Planned(timer)

\* C6: when a tick returns, the current session (if any) is RUNNING, PAUSED
\* or PAUSED_AWAY, never COMPLETED or NOT_STARTED; the tick that brings
\* time_remaining to 0 hands over the session it completed and leaves the
\* next one RUNNING with its full duration, a break after WORK and WORK after
\* a break; no other tick changes the session.
C6_BoundaryInOneTick ==
    [][op'.name = "tick"
       => /\ HasSession(timer') => GetState(timer') \in {RUNNING, PAUSED, PAUSED_AWAY}
          /\ IF ReachesZero(op'.args[1])
             THEN /\ Len(CompletedBy(fired')) = 1
                  /\ CompletedBy(fired')[1].state = COMPLETED
                  /\ CompletedBy(fired')[1].session_type
                         = Get(timer.current_session).session_type
                  /\ TickEnabled(timer')
                  /\ timer'.time_remaining = Planned(timer')
                  /\ IsRunning(timer, {WORK}) => IsRunning(timer', Breaks)
                  /\ IsRunning(timer, Breaks) => IsRunning(timer', {WORK})
             ELSE /\ CompletedBy(fired') = <<>>
                  /\ timer'.current_session = timer.current_session]_vars

\* A tick has completed a break and a work session is running, after an
\* earlier work session was completed.
C6_Witness ==
    /\ op.name = "tick"
    /\ Len(CompletedBy(fired)) = 1
    /\ CompletedBy(fired)[1].session_type \in Breaks
    /\ IsRunning(timer, {WORK})
    /\ timer.session_count >= 1
    /\ timer.time_remaining = timer.work_duration

\* C7: session_count starts at 0 and changes only by one, on the tick that
\* completes a WORK session, so it is the number k of work sessions completed
\* since construction; the break that tick starts is LONG_BREAK with
\* long_break_duration when k is a multiple of sessions_until_long_break and
\* SHORT_BREAK with short_break_duration otherwise; start_break_session called
\* with session_count = 0 starts a SHORT_BREAK.
C7_LongBreakSelection ==
    /\ timer.session_count = 0
    /\ [][/\ timer'.session_count # timer.session_count
             => /\ op'.name = "tick"
                /\ IsRunning(timer, {WORK})
                /\ Len(CompletedBy(fired')) = 1
                /\ timer'.session_count = timer.session_count + 1
          /\ (/\ op'.name = "tick"
              /\ Len(CompletedBy(fired')) = 1
              /\ CompletedBy(fired')[1].session_type = WORK)
             => LET k == timer.session_count + 1
                    now == Get(timer'.current_session)
                IN /\ timer'.session_count = k
                   /\ k >= 1
                   /\ IF k % timer.sessions_until_long_break = 0
                      THEN /\ now.session_type = LONG_BREAK
                           /\ now.planned_duration = timer.long_break_duration
                           /\ timer'.time_remaining = timer.long_break_duration
                      ELSE /\ now.session_type = SHORT_BREAK
                           /\ now.planned_duration = timer.short_break_duration
                           /\ timer'.time_remaining = timer.short_break_duration
          /\ (op'.name = "start_break_session" /\ timer.session_count = 0)
             => Get(timer'.current_session).session_type = SHORT_BREAK]_vars

\* The tick completing the work session whose number is twice
\* sessions_until_long_break has started a long break.
C7_Witness ==
    /\ op.name = "tick"
    /\ Len(CompletedBy(fired)) = 1
    /\ CompletedBy(fired)[1].session_type = WORK
    /\ timer.session_count = 2 * timer.sessions_until_long_break
    /\ IsRunning(timer, {LONG_BREAK})

\* Every detector result of the current run of absences came while the
\* engine reported RUNNING.
AllWhileRunning(run) == \A i \in 1..Len(run) : run[i]

FaceStatusCalled(face_detected) ==
    /\ op'.name = "update_face_status"
    /\ op'.args[1] = face_detected

\* C8: in a run of absent detector results that all arrive while the engine
\* reports RUNNING, distraction_count goes up by exactly one at the third
\* result and stays as it is at every other one; a result with a face resets
\* the away streak to 0 and counts nothing; the streak otherwise only grows,
\* by one per counted absence, and distraction_count goes up only on the
\* absent result that takes the streak from 2 to 3, so it goes up again only
\* after a result with a face and three more absent ones.
C8_DistractionEdge ==
    [][/\ (FaceStatusCalled(FALSE) /\ AllWhileRunning(absences'))
          => /\ window'.away_frames = Len(absences')
             /\ timer'.distraction_count
                    = timer.distraction_count + (IF Len(absences') = 3 THEN 1 ELSE 0)
       /\ FaceStatusCalled(TRUE)
          => /\ window'.away_frames = 0
             /\ timer'.distraction_count = timer.distraction_count
       /\ window'.away_frames # window.away_frames
          => \/ FaceStatusCalled(TRUE)
             \/ FaceStatusCalled(FALSE) /\ window'.away_frames = window.away_frames + 1
       /\ timer'.distraction_count > timer.distraction_count
          => /\ FaceStatusCalled(FALSE)
             /\ timer'.distraction_count = timer.distraction_count + 1
             /\ window.away_frames = 2
             /\ window'.away_frames = 3
             /\ Len(absences') >= 3]_vars

\* A second distraction has been counted in the same session, at the third
\* absent result of a new run, all of them delivered while RUNNING.
C8_Witness ==
    /\ op.name = "update_face_status"
    /\ ~op.args[1]
    /\ Len(absences) = 3
    /\ AllWhileRunning(absences)
    /\ timer.distraction_count = 2
    /\ IsRunning(timer, {WORK})

\* C9 as claimed: distraction_count goes up only while the current session
\* is a WORK session in state RUNNING.
C9_AsClaimed ==
    [][timer'.distraction_count > timer.distraction_count
       => IsRunning(timer, {WORK})]_vars

\* C10: pause(is_away) on a RUNNING session changes nothing in the engine
\* but the session's state, to PAUSED_AWAY when is_away and PAUSED otherwise;
\* resume() on a PAUSED or PAUSED_AWAY session changes nothing but the state,
\* to RUNNING; pausing and then resuming a RUNNING engine gives back the
\* engine as it was.
C10_PauseResume ==
    /\ [][/\ (op'.name = "pause" /\ GetState(timer) = RUNNING)
             => /\ GetState(timer') = IF op'.args[1] THEN PAUSED_AWAY ELSE PAUSED
                /\ [timer' EXCEPT !.current_session = None]
                       = [timer EXCEPT !.current_session = None]
                /\ [Get(timer'.current_session) EXCEPT !.state = RUNNING]
                       = Get(timer.current_session)
          /\ (op'.name = "resume" /\ GetState(timer) \in {PAUSED, PAUSED_AWAY})
             => /\ GetState(timer') = RUNNING
                /\ [timer' EXCEPT !.current_session = None]
                       = [timer EXCEPT !.current_session = None]
                /\ [Get(timer'.current_session) EXCEPT !.state = PAUSED]
                       = [Get(timer.current_session) EXCEPT !.state = PAUSED]]_vars
    /\ [](GetState(timer) = RUNNING
          => \A is_away \in BOOLEAN : Resume(Pause(World, is_away)).timer = timer)

\* resume() has put a session paused for absence, with seconds already
\* counted, back to RUNNING.
C10_Witness ==
    /\ op.name = "resume"
    /\ fired = <<StateChanged(RUNNING)>>
    /\ GetState(timer) = RUNNING
    /\ timer.time_remaining < Planned(timer)
    /\ timer.current_session_away_time > 0

\* The state-change notifications among those the last operation fired.
StateChanges(f) == SelectSeq(f, LAMBDA n : n.kind = "state_change")

\* C11: stop() called with a current session discards it without completing
\* it: the session-complete notification does not fire, nothing is added to
\* the history, session_count and the daily goal are as before, and nothing
\* in the engine changes but current_session, which becomes None (so the
\* state reported is NOT_STARTED), and time_remaining, which becomes
\* work_duration.
C11_StopAbandons ==
    [][(op'.name = "stop" /\ HasSession(timer))
       => /\ timer' = [timer EXCEPT !.current_session = None,
                                    !.time_remaining = timer.work_duration]
          /\ GetState(timer') = NOT_STARTED
          /\ CompletedBy(fired') = <<>>
          /\ data_manager' = data_manager
          /\ timer'.session_count = timer.session_count
          /\ timer'.daily_goal = timer.daily_goal]_vars

\* stop() has discarded a session of a later round: a work session was
\* completed before, seconds were counted since, and the engine is back at
\* time_remaining = work_duration with no session.
C11_Witness ==
    /\ op.name = "stop"
    /\ ~HasSession(timer)
    /\ timer.session_count >= 1
    /\ timer.total_break_time > 0
    /\ timer.current_session_away_time > 0
    /\ timer.time_remaining = timer.work_duration
    /\ CompletedBy(fired) = <<>>

\* C12 as claimed: stop() fires the state-change notification once when a
\* current session existed before the call, and fires nothing when none did.
C12_AsClaimed ==
    [][op'.name = "stop"
       => IF HasSession(timer)
          THEN Len(StateChanges(fired')) = 1 /\ Len(fired') = 1
          ELSE fired' = <<>>]_vars

\* C13: set_durations called while the current session is RUNNING returns
\* False and leaves the engine, so work_duration, short_break_duration,
\* long_break_duration and time_remaining, as it was; called with no session
\* or with a PAUSED or PAUSED_AWAY session it returns True, and work_duration,
\* short_break_duration and (when given) long_break_duration are the
\* arguments converted to seconds.
C13_SetDurationsGuard ==
    [][op'.name = "set_durations"
       => IF GetState(timer) = RUNNING
          THEN /\ op'.ret = "False"
               /\ timer' = timer
          ELSE /\ GetState(timer) \in {NOT_STARTED, PAUSED, PAUSED_AWAY}
               /\ op'.ret = "True"
               /\ timer'.work_duration = op'.args[1] * SecondsPerMinute
               /\ timer'.short_break_duration = op'.args[2] * SecondsPerMinute
               /\ ~IsNone(op'.args[3])
                  => timer'.long_break_duration = Get(op'.args[3]) * SecondsPerMinute]_vars

\* set_durations has been refused on a running session with a second
\* counted, called with durations that all differ from the engine's.
C13_Witness ==
    /\ op.name = "set_durations"
    /\ op.ret = "False"
    /\ GetState(timer) = RUNNING
    /\ timer.time_remaining < Planned(timer)
    /\ op.args[1] * SecondsPerMinute # timer.work_duration
    /\ op.args[2] * SecondsPerMinute # timer.short_break_duration
    /\ ~IsNone(op.args[3])
    /\ Get(op.args[3]) * SecondsPerMinute # timer.long_break_duration

\* The last operation started a session.
SessionStarted ==
    \/ op'.name \in {"start_work_session", "start_break_session"}
    \/ op'.name = "tick" /\ CompletedBy(fired') # <<>>

\* The duration the engine t plans for a session of the given type.
DurationOf(t, session_type) ==
    IF session_type = WORK THEN t.work_duration
    ELSE IF session_type = SHORT_BREAK THEN t.short_break_duration
    ELSE t.long_break_duration

\* C14: on a successful set_durations, long_break_duration keeps its value
\* when the long-break argument is omitted; with no current session
\* time_remaining becomes the new work_duration; with a paused session the
\* session (so its planned_duration) and time_remaining are left unchanged;
\* nothing else in the engine changes; and every session started afterwards
\* is planned with the duration fields as they are when it starts.
C14_SetDurationsFrame ==
    [][/\ (op'.name = "set_durations" /\ op'.ret = "True")
          => /\ IsNone(op'.args[3])
                => timer'.long_break_duration = timer.long_break_duration
             /\ IF HasSession(timer)
                THEN /\ timer'.time_remaining = timer.time_remaining
                     /\ timer'.current_session = timer.current_session
                ELSE /\ timer'.time_remaining = timer'.work_duration
                     /\ ~HasSession(timer')
             /\ [timer' EXCEPT !.work_duration = 0, !.short_break_duration = 0,
                               !.long_break_duration = 0, !.time_remaining = 0]
                    = [timer EXCEPT !.work_duration = 0, !.short_break_duration = 0,
                                    !.long_break_duration = 0, !.time_remaining = 0]
       /\ SessionStarted
          => /\ Planned(timer')
                    = DurationOf(timer, Get(timer'.current_session).session_type)
             /\ timer'.time_remaining = Planned(timer')]_vars

\* set_durations has succeeded on a paused work session with a second
\* counted: the long break was omitted, and the new work_duration differs
\* from the duration the session was planned with.
C14_Witness ==
    /\ op.name = "set_durations"
    /\ op.ret = "True"
    /\ IsNone(op.args[3])
    /\ GetState(timer) \in {PAUSED, PAUSED_AWAY}
    /\ Get(timer.current_session).session_type = WORK
    /\ timer.work_duration # Planned(timer)
    /\ timer.time_remaining = Planned(timer) - 1
    /\ timer.long_break_duration # timer.work_duration

\* The per-session focus time the engine holds when the tick being applied
\* reaches completion: a work session ends on a tick that counts a second of
\* focus, a break counts none.
FocusTimeAtCompletion(t) ==
    t.current_session_focus_time + (IF IsRunning(t, {WORK}) THEN 1 ELSE 0)

\* st carries the engine's counters: focus_time, away_time, distraction_count
\* and the session's planned_duration.
CarriesCounters(st, t) ==
    /\ st.focus_time = FocusTimeAtCompletion(t)
    /\ st.away_time = t.current_session_away_time
    /\ st.distraction_count = t.distraction_count
    /\ st.total_duration = Planned(t)

\* C15 as claimed: the statistics built at completion carry the engine's
\* counters and the session's planned_duration, focus_percentage is 100 when
\* focus_time + away_time = 0 and focus_time * 100 / (focus_time + away_time)
\* otherwise, and focus_score is that value truncated and capped at 100.
C15_AsClaimed ==
    [][\A i \in 1..Len(CompletedBy(fired')) :
           LET st == Get(CompletedBy(fired')[i].statistics)
               total == st.focus_time + st.away_time
               percentage == IF total = 0 THEN FloatOfInt(100)
                             ELSE FloatDiv(st.focus_time * 100, total)
           IN /\ CarriesCounters(st, timer)
              /\ st.focus_percentage = percentage
              /\ FocusScore(st) = IF FloatTrunc(percentage) < 100
                                  THEN FloatTrunc(percentage) ELSE 100]_vars

\* C15 (amended): the statistics built at completion carry the engine's
\* counters and the session's planned_duration; focus_percentage is 100 when
\* focus_time + away_time = 0, and otherwise the float quotient
\* focus_time / (focus_time + away_time) multiplied by 100, each of the two
\* operations rounded to a binary64 number; focus_score is the integer s in
\* 0..100 with s <= focus_percentage < s + 1 (s = 100 at 100), which is the
\* whole part of the exact percentage or one less.
C15_Statistics ==
    [][\A i \in 1..Len(CompletedBy(fired')) :
           LET st == Get(CompletedBy(fired')[i].statistics)
               total == st.focus_time + st.away_time
               s == FocusScore(st)
           IN /\ CarriesCounters(st, timer)
              /\ st.focus_percentage
                     = IF total = 0 THEN FloatOfInt(100)
                       ELSE FloatMulInt(FloatDiv(st.focus_time, total), 100)
              /\ s \in 0..100
              /\ ~FloatLess(st.focus_percentage, FloatOfInt(s))
              /\ s < 100 => FloatLess(st.focus_percentage, FloatOfInt(s + 1))
              /\ total = 0 => s = 100
              /\ total > 0 => s \in {(st.focus_time * 100) \div total,
                                     (st.focus_time * 100) \div total - 1}]_vars

\* A break started after a stopped work session has been completed with 29
\* seconds of focus and 21 away in its statistics: the exact percentage is
\* 58 and focus_score is 57.
C15_Witness ==
    /\ op.name = "tick"
    /\ Len(CompletedBy(fired)) = 1
    /\ Get(CompletedBy(fired)[1].statistics).focus_time = 29
    /\ Get(CompletedBy(fired)[1].statistics).away_time = 21
    /\ FocusScore(Get(CompletedBy(fired)[1].statistics)) = 57

\* C16: in every state of the engine and for either value of present,
\* tick(present, focused = true) and tick(present, focused = false) leave the
\* same engine, fire the same notifications and hand over the same completed
\* session with the same statistics.
C16_FocusedIgnored ==
    \A user_present \in BOOLEAN :
        Tick(World, user_present, TRUE) = Tick(World, user_present, FALSE)

\* A tick with the user present but not focused has completed a work session
\* that counted away time, every second of it as focus time.
C16_Witness ==
    /\ op.name = "tick"
    /\ op.args = <<TRUE, FALSE>>
    /\ Len(CompletedBy(fired)) = 1
    /\ CompletedBy(fired)[1].session_type = WORK
    /\ Get(CompletedBy(fired)[1].statistics).focus_time
           = CompletedBy(fired)[1].planned_duration
    /\ Get(CompletedBy(fired)[1].statistics).away_time > 0

\* The last operation was the tick that completed a WORK session.
WorkCompleted ==
    /\ op'.name = "tick"
    /\ Len(CompletedBy(fired')) = 1
    /\ CompletedBy(fired')[1].session_type = WORK

\* Every operation but the completion of a WORK session leaves
\* completed_sessions and the goal's date as they are; set_durations does so
\* in every state.
GoalOnlyOnWork ==
    /\ [][~WorkCompleted
           => /\ timer'.daily_goal.completed_sessions = timer.daily_goal.completed_sessions
              /\ timer'.daily_goal.date = timer.daily_goal.date]_vars
    /\ [](\A work_minutes \in 1..MaxMinutes, short_break_minutes \in 1..MaxMinutes,
             long_break_minutes \in {None} \cup {Some(m) : m \in 1..MaxMinutes} :
               SetDurations(timer, work_minutes, short_break_minutes,
                            long_break_minutes).daily_goal = timer.daily_goal)

\* The completion of a WORK session sets completed_sessions to 1 and the
\* goal's date to the current date when the date differs from the goal's,
\* and adds exactly 1 otherwise.
GoalOnWork ==
    [][WorkCompleted
       => /\ timer'.daily_goal.date = clock
          /\ timer'.daily_goal.target_sessions = timer.daily_goal.target_sessions
          /\ timer'.daily_goal.completed_sessions
                 = IF timer.daily_goal.date # clock
                   THEN 1
                   ELSE timer.daily_goal.completed_sessions + 1]_vars

\* C17 as claimed: completed_sessions changes only when a WORK session
\* completes, to 1 with the date updated on a new date and by exactly 1
\* otherwise, and within one calendar day it never decreases.
C17_AsClaimed ==
    /\ GoalOnlyOnWork
    /\ GoalOnWork
    /\ [][clock' = clock
           => timer'.daily_goal.completed_sessions
                  >= timer.daily_goal.completed_sessions]_vars

\* C17 (amended): completed_sessions changes only when a WORK session
\* completes, to 1 with the date updated on a new date and by exactly 1
\* otherwise; it never decreases while the goal's date is the current date;
\* a decrease happens only within a day, at its first WORK completion, when
\* the count left by the earlier date was 2 or more.
C17_DailyGoal ==
    /\ GoalOnlyOnWork
    /\ GoalOnWork
    /\ [][/\ timer.daily_goal.date = clock
              => timer'.daily_goal.completed_sessions
                     >= timer.daily_goal.completed_sessions
          /\ timer'.daily_goal.completed_sessions < timer.daily_goal.completed_sessions
              => /\ WorkCompleted
                 /\ clock' = clock
                 /\ timer.daily_goal.date # clock
                 /\ timer.daily_goal.completed_sessions >= 2
                 /\ timer'.daily_goal.completed_sessions = 1]_vars

\* The first WORK session of a new date has been completed after two on the
\* earlier date: the count went from 2 to 1 within the day.
C17_Witness ==
    /\ op.name = "tick"
    /\ Len(CompletedBy(fired)) = 1
    /\ CompletedBy(fired)[1].session_type = WORK
    /\ timer.session_count = 3
    /\ timer.daily_goal.completed_sessions = 1
    /\ timer.daily_goal.date = clock
    /\ clock = 1

\* The session s has its statistics and its end_time exactly when it is
\* COMPLETED, and has a start_time.
SessionWellFormed(s) ==
    /\ ~IsNone(s.statistics) <=> s.state = COMPLETED
    /\ ~IsNone(s.end_time) <=> s.state = COMPLETED
    /\ ~IsNone(s.start_time)

\* C18: every session of the engine, the current one between operations and
\* the one handed over at completion, has statistics exactly when its state
\* is COMPLETED and end_time exactly when its state is COMPLETED; its
\* start_time is set when it starts, to the time of the start, and is the
\* same after every pause, resume and tick and in the completed session
\* handed over.
C18_SessionLifecycle ==
    /\ [](HasSession(timer) => SessionWellFormed(Get(timer.current_session)))
    /\ [](\A i \in 1..Len(CompletedBy(fired)) :
              /\ SessionWellFormed(CompletedBy(fired)[i])
              /\ CompletedBy(fired)[i].state = COMPLETED)
    /\ [][/\ SessionStarted
              => Get(timer'.current_session).start_time = Some(clock)
          /\ (HasSession(timer) /\ HasSession(timer') /\ ~SessionStarted)
              => Get(timer'.current_session).start_time
                     = Get(timer.current_session).start_time
          /\ \A i \in 1..Len(CompletedBy(fired')) :
                 /\ CompletedBy(fired')[i].start_time
                        = Get(timer.current_session).start_time
                 /\ CompletedBy(fired')[i].end_time = Some(clock)]_vars

\* A work session started on one date, with away time counted, has been
\* completed on the next date: it carries both dates.
C18_Witness ==
    /\ op.name = "tick"
    /\ Len(CompletedBy(fired)) = 1
    /\ CompletedBy(fired)[1].session_type = WORK
    /\ CompletedBy(fired)[1].start_time = Some(0)
    /\ CompletedBy(fired)[1].end_time = Some(1)
    /\ Get(CompletedBy(fired)[1].statistics).away_time > 0

\* The tick notifications among those the last operation fired.
Ticks(f) == SelectSeq(f, LAMBDA n : n.kind = "tick")

\* C19: with positive durations, when an operation has returned
\* time_remaining is at least 1, and at most the planned_duration of the
\* current session when there is one; the value a tick notification carries
\* is the engine's time_remaining, so it is at least 1 too.
C19_TimeRemaining ==
    /\ timer.time_remaining >= 1
    /\ HasSession(timer) => timer.time_remaining <= Planned(timer)
    /\ \A i \in 1..Len(Ticks(fired)) :
           /\ Ticks(fired)[i].time_remaining >= 1
           /\ Ticks(fired)[i].time_remaining = timer.time_remaining

\* The tick that took the last second of a break has started a work session
\* with a work_duration changed by set_durations, and its notification
\* carries that duration.
C19_Witness ==
    /\ op.name = "tick"
    /\ Len(CompletedBy(fired)) = 1
    /\ CompletedBy(fired)[1].session_type \in Breaks
    /\ timer.work_duration = MaxMinutes * SecondsPerMinute
    /\ Len(Ticks(fired)) = 1
    /\ Ticks(fired)[1].time_remaining = timer.work_duration
    /\ IsRunning(timer, {WORK})

\* C20: total_focus_time, total_break_time and total_away_time start at 0
\* and no operation (tick, with or without a completion, start_work_session,
\* start_break_session, pause, resume, stop, set_durations) decreases any of
\* them; only a tick changes them, by one second in exactly one of them.
C20_TotalsMonotonic ==
    /\ Elapsed(timer) = 0
    /\ [][/\ timer'.total_focus_time >= timer.total_focus_time
          /\ timer'.total_break_time >= timer.total_break_time
          /\ timer'.total_away_time >= timer.total_away_time
          /\ Elapsed(timer') # Elapsed(timer)
             => /\ op'.name = "tick"
                /\ Elapsed(timer') = Elapsed(timer) + 1]_vars

\* A work session has been started again after a stop, with the durations
\* changed: the per-session counters are back at 0 and the three totals keep
\* the seconds counted so far.
C20_Witness ==
    /\ op.name = "start_work_session"
    /\ timer.total_focus_time > 0
    /\ timer.total_break_time > 0
    /\ timer.total_away_time > 0
    /\ timer.current_session_focus_time = 0
    /\ timer.current_session_away_time = 0
    /\ Planned(timer) = MaxMinutes * SecondsPerMinute

\* The last operation started a work session: Start was pressed with no
\* session, or a break was completed.
WorkStarted ==
    \/ op'.name = "start_timer" /\ GetState(timer) = NOT_STARTED
    \/ \E i \in 1..Len(CompletedBy(fired')) :
           CompletedBy(fired')[i].session_type \in Breaks

\* The ticks update_display applies from inside the state-change notification
\* of a start: one when a detector result has been stored, none before.
TicksOnNotification == IF IsNone(window.current_face_status) THEN 0 ELSE 1

\* C21: every start of a work session, by a direct start_work_session call
\* or by the completion of a break, sets current_session_focus_time,
\* current_session_away_time and distraction_count to 0 before any tick of
\* the new session is counted: when the call returns the work session holds
\* no distraction, and only the seconds of the tick applied from inside its
\* state-change notification; the focus time of a work session is always its
\* planned duration minus time_remaining, and a completed WORK session
\* carries a focus_time equal to its total_duration.
C21_WorkStartResets ==
    [][/\ WorkStarted
          => /\ GetSessionType(timer') = Some(WORK)
             /\ timer'.distraction_count = 0
             /\ timer'.current_session_focus_time + timer'.current_session_away_time
                    = TicksOnNotification
       /\ GetSessionType(timer') = Some(WORK)
          => timer'.current_session_focus_time = Planned(timer') - timer'.time_remaining
       /\ \A i \in 1..Len(CompletedBy(fired')) :
              CompletedBy(fired')[i].session_type = WORK
              => CompletedBy(fired')[i].statistics[1].focus_time
                     = CompletedBy(fired')[i].statistics[1].total_duration]_vars

\* The completion of a break in which a distraction was counted has started
\* a work session whose distraction_count is 0.
C21_Witness ==
    /\ op.name = "update_display"
    /\ Len(CompletedBy(fired)) = 1
    /\ CompletedBy(fired)[1].session_type \in Breaks
    /\ CompletedBy(fired)[1].statistics[1].distraction_count > 0
    /\ CompletedBy(fired)[1].statistics[1].focus_time > 0
    /\ GetSessionType(timer) = Some(WORK)
    /\ timer.distraction_count = 0

\* C22: with an on_tick callback registered, every tick applied to a RUNNING
\* session fires exactly one tick notification; it is the last notification
\* of the call, after those of a completion the tick triggers, and it
\* carries the engine's new time_remaining, which is not negative; a tick
\* applied with no session or with a paused one fires none.
C22_TickNotification ==
    [][op'.name = "tick"
       => IF TickEnabled(timer)
          THEN /\ Len(Ticks(fired')) = 1
               /\ fired'[Len(fired')].kind = "tick"
               /\ fired'[Len(fired')].time_remaining = timer'.time_remaining
               /\ fired'[Len(fired')].time_remaining >= 0
          ELSE fired' = <<>>]_vars

\* The tick that completed a work session has fired the session-complete
\* notification, the state change of the break, and then its one tick
\* notification with the duration of the break.
C22_Witness ==
    /\ op.name = "tick"
    /\ Len(fired) = 3
    /\ fired[1].kind = "session_complete"
    /\ Get(fired[1].session).session_type = WORK
    /\ fired[2].kind = "state_change"
    /\ fired[3].kind = "tick"
    /\ fired[3].time_remaining = timer.short_break_duration
    /\ IsRunning(timer, {SHORT_BREAK})

\* The session-complete notifications among those the last operation fired.
Completions(f) == SelectSeq(f, LAMBDA n : n.kind = "session_complete")

\* The tick called on the engine counts the last second of the session.
CompletingTick ==
    /\ op'.name = "tick"
    /\ TickEnabled(timer)
    /\ SessionOver(TickCount(timer, op'.args[1]))

\* C23: a tick that counts the last second of a session fires the
\* session-complete notification exactly once, and any other call fires
\* none; the session handed over is the current one put in state COMPLETED
\* with its statistics attached; while the callback runs session_count and
\* the daily goal are as before the tick and the engine's current session is
\* still the finished one; when the tick returns the counters are updated
\* (for a WORK session) and the current session is a new RUNNING one without
\* statistics, so that no later call of the engine reaches the finished
\* session: the engine's current session is never a COMPLETED one.
C23_CompletionOrder ==
    [][/\ IF CompletingTick
          THEN /\ Len(Completions(fired')) = 1
               /\ LET n == Completions(fired')[1]
                      done == Get(n.session)
                  IN /\ done = [Get(timer.current_session) EXCEPT
                                   !.state = COMPLETED,
                                   !.end_time = Some(clock),
                                   !.statistics = done.statistics]
                     /\ ~IsNone(done.statistics)
                     /\ Get(n.engine).current_session = n.session
                     /\ Get(n.engine).session_count = timer.session_count
                     /\ Get(n.engine).daily_goal = timer.daily_goal
                     /\ timer'.session_count
                            = timer.session_count + (IF done.session_type = WORK THEN 1 ELSE 0)
                     /\ timer'.daily_goal.completed_sessions
                            = timer.daily_goal.completed_sessions
                                  + (IF done.session_type = WORK THEN 1 ELSE 0)
                     /\ timer'.current_session # n.session
                     /\ GetState(timer') = RUNNING
                     /\ IsNone(Get(timer'.current_session).statistics)
          ELSE Completions(fired') = <<>>
       /\ GetState(timer') # COMPLETED]_vars

\* The completion of the second work session has been notified while
\* session_count was still 1, and the tick has left it at 2 with a long break
\* running.
C23_Witness ==
    /\ op.name = "tick"
    /\ Len(Completions(fired)) = 1
    /\ Get(Completions(fired)[1].session).session_type = WORK
    /\ Get(Completions(fired)[1].engine).session_count = 1
    /\ Get(Completions(fired)[1].engine).daily_goal.completed_sessions = 1
    /\ timer.session_count = 2
    /\ timer.daily_goal.completed_sessions = 2
    /\ IsRunning(timer, {LONG_BREAK})

\* C24 as claimed: the application applies the engine's tick at most once
\* per firing of the one-second timer (update_display), and no other event
\* of the window applies one: the seconds counted go up by at most 1 in a
\* firing and by none in any other event, so a RUNNING session's
\* time_remaining changes by at most 1 between two firings.
C24_AsClaimed ==
    [][IF op'.name = "update_display"
       THEN Elapsed(timer') <= Elapsed(timer) + 1
       ELSE /\ Elapsed(timer') = Elapsed(timer)
            /\ (TickEnabled(timer) /\ TickEnabled(timer')
                    /\ timer'.current_session = timer.current_session)
               => timer'.time_remaining = timer.time_remaining]_vars

\* C25 as claimed: distraction_count goes up only when present was false on
\* each of the 3 most recent ticks of the running session, however many
\* detector results come between two ticks; 3 ticks with present false in a
\* running WORK session have counted at least 3 away seconds in it.
C25_AsClaimed ==
    [][(timer'.distraction_count > timer.distraction_count /\ IsRunning(timer, {WORK}))
       => timer.current_session_away_time >= 3]_vars

\* C26: every session the engine completes, work or break, is handed to
\* DataManager.add_session exactly once: each event of the window appends to
\* the history collection the sessions completed during it, in the order of
\* their completion, and nothing else; the collection holds only COMPLETED
\* sessions with statistics, and Reset, which abandons the current session,
\* leaves it unchanged.
C26_HistoryOrder ==
    [][/\ data_manager'.sessions = data_manager.sessions \o CompletedBy(fired')
       /\ \A i \in 1..Len(data_manager'.sessions) :
              /\ data_manager'.sessions[i].state = COMPLETED
              /\ ~IsNone(data_manager'.sessions[i].statistics)
       /\ op'.name = "reset_timer" => data_manager' = data_manager]_vars

\* A work session and the break after it are in the history, in that order,
\* and the work session that followed has been abandoned by Reset.
C26_Witness ==
    /\ op.name = "reset_timer"
    /\ ~HasSession(timer)
    /\ timer.current_session_focus_time + timer.current_session_away_time > 0
    /\ Len(data_manager.sessions) = 2
    /\ data_manager.sessions[1].session_type = WORK
    /\ data_manager.sessions[2].session_type = SHORT_BREAK
    /\ data_manager.history_file
           = File(Document(data_manager.sessions, clock))

\* add_session is called with the session.
AddSessionCalled(session) ==
    /\ saving = None
    /\ op'.name = "add_session"
    /\ op'.args = <<session>>

\* The history file holds exactly the sessions: it is a complete document
\* whose records are those of the sessions, and loading it gives them back.
Persisted(dm) ==
    /\ dm.history_file.exists
    /\ IsDocument(dm.history_file.content)
    /\ Records(dm.history_file.content)
           = [i \in 1..Len(dm.sessions) |-> SessionToDict(dm.sessions[i])]
    /\ NewDataManager(dm.history_file) = [data_manager |-> dm, raised |-> "none"]

\* C27: add_session is write-through and guarded.  Called with a session
\* that has statistics it appends the session at the end of the in-memory
\* collection and writes the file; the collection does not change while the
\* file is written, and when the write has succeeded (the file is closed)
\* the file holds exactly the in-memory collection.  Called with a session
\* without statistics it changes neither the collection nor the file and
\* writes nothing.
C27_WriteThrough ==
    [][/\ \A session \in AddedSessions(clock) :
              AddSessionCalled(session)
              => IF ~IsNone(session.statistics)
                 THEN /\ data_manager'.sessions = Append(data_manager.sessions, session)
                      /\ \/ saving' # None /\ data_manager'.history_file = File(<<>>)
                         \/ /\ saving' = None
                            /\ data_manager'.history_file = data_manager.history_file
                 ELSE /\ data_manager' = data_manager
                      /\ saving' = None
       /\ saving # None /\ op' = op
          => data_manager'.sessions = data_manager.sessions
       /\ saving = Some(<<>>) /\ saving' = None /\ op' = op
          => Persisted(data_manager')]_vars

\* add_session has returned after a successful write in a run that loaded
\* two sessions: the collection is those two and the new one, and the file
\* holds the three.
C27_Witness ==
    /\ op.name = "add_session"
    /\ ~IsNone(op.args[1].statistics)
    /\ saving = None
    /\ Len(data_manager.sessions) = 3
    /\ data_manager.sessions[1] = Finished(WORK, 0)
    /\ data_manager.sessions[2] = Finished(SHORT_BREAK, 0)
    /\ data_manager.sessions[3] = op.args[1]
    /\ Persisted(data_manager)

\* The records of sessions in the text that Session.from_dict accepts.
StoredSessions(content) ==
    LET stored == SelectSeq(content, LAMBDA c : c.chunk = "session"
                                                /\ FromDictError(c.value) = "none")
    IN [i \in 1..Len(stored) |-> stored[i].value]

\* C28 as claimed: whatever the history file holds when a run starts, after
\* load_history and then add_session(s) the store holds every session that
\* was stored before, followed by s: the text add_session sets out to write
\* has the records of the sessions found in the file, in order, and then
\* the record of s.
C28_AsClaimed ==
    [][\A session \in AddedSessions(clock) :
           (/\ op.name = "__init__"
            /\ AddSessionCalled(session)
            /\ ~IsNone(session.statistics)
            /\ saving' # None)
           => StoredSessions(Get(saving'))
                  = StoredSessions(data_manager.history_file.content)
                        \o <<SessionToDict(session)>>]_vars

\* C29: load_history never raises: DataManager.__init__ returns; with no
\* history file the collection is empty; with a file whose text is not
\* JSON, is not an object, or has a session record that from_dict rejects,
\* the collection is empty too; with a document of good records the
\* collection is those sessions, in order.
C29_LoadNeverRaises ==
    op.name = "__init__"
    => /\ op.ret = "None"
       /\ IF data_manager.history_file.exists
             /\ LoadError(data_manager.history_file.content) = "none"
          THEN data_manager.sessions
                   = [i \in 1..Len(Records(data_manager.history_file.content)) |->
                         FromDict(Records(data_manager.history_file.content)[i])]
          ELSE data_manager.sessions = <<>>

\* A run has started on a file that a save of two sessions left cut short:
\* json.load raised, and the collection is empty.
C29_Witness ==
    /\ op.name = "__init__"
    /\ op.ret = "None"
    /\ data_manager.history_file.exists
    /\ LoadError(data_manager.history_file.content) = "JSONDecodeError"
    /\ Len(StoredSessions(data_manager.history_file.content)) = 2
    /\ data_manager.sessions = <<>>

\* C30 as claimed: a reader of the history file, or a crash, at any point of
\* save_history finds the complete previous contents or the complete new
\* contents: every step leaves the file as it was or holding exactly the
\* sessions of the collection.
C30_AsClaimed ==
    [][\/ data_manager'.history_file = data_manager.history_file
       \/ Persisted(data_manager')]_vars

\* C31: a failed write of the history file is not fatal.  When open fails
\* in add_session the call returns None, the session is at the end of the
\* in-memory collection and the file is as it was; when it fails in
\* save_history the call returns None and nothing changes; when a write
\* fails the call returns None and the collection is as it was.  No call of
\* the store touches the engine, and every save that runs to its end leaves
\* the file holding every session in memory, those of failed saves too.
C31_FailedWrite ==
    [][/\ \A session \in AddedSessions(clock) :
              (AddSessionCalled(session) /\ ~IsNone(session.statistics) /\ saving' = None)
              => /\ op'.ret = "None"
                 /\ data_manager'.sessions = Append(data_manager.sessions, session)
                 /\ data_manager'.history_file = data_manager.history_file
       /\ (saving = None /\ op'.name = "save_history" /\ saving' = None)
          => /\ op'.ret = "None"
             /\ data_manager' = data_manager
       /\ (saving # None /\ saving # Some(<<>>) /\ saving' = None /\ op'.name # "__init__")
          => /\ op' = op
             /\ op.name \in {"add_session", "save_history"} => op.ret = "None"
             /\ data_manager' = data_manager
       /\ timer' = timer
       /\ (saving = Some(<<>>) /\ saving' = None /\ op'.name # "__init__")
          => /\ Persisted(data_manager')
             /\ Len(Records(data_manager'.history_file.content)) = Len(data_manager'.sessions)]_vars

\* add_session has returned None after a write that failed part of the way:
\* the collection ends with the session added, and the file is cut short.
C31_Witness ==
    /\ op = Call("add_session", op.args, "None")
    /\ ~IsNone(op.args[1].statistics)
    /\ saving = None
    /\ Len(data_manager.sessions) >= 2
    /\ data_manager.sessions[Len(data_manager.sessions)] = op.args[1]
    /\ data_manager.history_file.exists
    /\ Len(data_manager.history_file.content) >= 2
    /\ ~IsJson(data_manager.history_file.content)

\* The session read back from the record written for the session s.
ReadBack(s) == FromDict(SessionToDict(s))

\* C32: serialization round-trips.  For every completed session the engine
\* has handed to the store, the record written to the history file is
\* Session.to_dict of it, Session.from_dict accepts that record, and the
\* session it returns has the same session_type, planned_duration,
\* start_time, end_time and state, and statistics with the same five fields.
C32_RoundTrip ==
    \A i \in 1..Len(data_manager.sessions) :
        LET s == data_manager.sessions[i]
        IN /\ s.state = COMPLETED
           /\ Records(data_manager.history_file.content)[i] = SessionToDict(s)
           /\ FromDictError(SessionToDict(s)) = "none"
           /\ ReadBack(s).session_type = s.session_type
           /\ ReadBack(s).planned_duration = s.planned_duration
           /\ ReadBack(s).start_time = s.start_time
           /\ ReadBack(s).end_time = s.end_time
           /\ ReadBack(s).state = s.state
           /\ ~IsNone(ReadBack(s).statistics)
           /\ \A field \in StatisticsFields :
                  Get(ReadBack(s).statistics)[field] = Get(s.statistics)[field]

\* The file holds the records of a work session with away time and a
\* distraction, and of the break after it.
C32_Witness ==
    /\ Len(data_manager.sessions) = 2
    /\ IsDocument(data_manager.history_file.content)
    /\ Len(Records(data_manager.history_file.content)) = 2
    /\ data_manager.sessions[1].session_type = WORK
    /\ Get(data_manager.sessions[1].statistics).away_time > 0
    /\ Get(data_manager.sessions[1].statistics).distraction_count > 0
    /\ data_manager.sessions[2].session_type = SHORT_BREAK
    /\ Records(data_manager.history_file.content)[1].start_time = IsoFormat(0)


\* A call of clear_old_sessions is made in this step.
ClearOldSessionsCalled == saving = None /\ op'.name = "clear_old_sessions"

\* Whether the session s was started before the cutoff.
StartedBefore(s, cutoff) == ~IsNone(s.start_time) /\ Get(s.start_time) < cutoff

SummaryList == IF IsNone(op.args[1]) THEN data_manager.sessions ELSE Get(op.args[1])

\* The work sessions of the list, and their focus scores.
WorkOf(sessions) == SelectSeq(sessions, LAMBDA s : s.session_type = WORK)
ScoresOf(sessions) == [i \in 1..Len(sessions) |-> FocusScore(Get(sessions[i].statistics))]

\* The sum of the field over the statistics of the sessions.
Total(sessions, field) ==
    SumSeq([i \in 1..Len(sessions) |-> Get(sessions[i].statistics)[field]])

\* C34: get_statistics_summary looks at WORK sessions only.  For a list with
\* no WORK session it returns the zero-valued summary without error;
\* otherwise total_sessions is the number of WORK sessions, the three totals
\* are the sums over them, the average score is the sum of their focus
\* scores divided by their number, the best and worst scores are the
\* largest and the smallest of them; and the result is the one the call
\* gives for the WORK sessions alone.
C34_Summary ==
    op.name = "get_statistics_summary"
    => /\ op.ret.raised = "none"
       /\ op.ret = GetStatisticsSummary(data_manager, Some(WorkOf(SummaryList)))
       /\ IF WorkOf(SummaryList) = <<>>
          THEN /\ DOMAIN Get(op.ret.value)
                      = {"total_sessions", "total_focus_time", "total_away_time",
                         "average_focus_score", "total_distractions",
                         "best_session_score", "worst_session_score"}
               /\ \A key \in DOMAIN Get(op.ret.value) : Get(op.ret.value)[key] = 0
          ELSE LET summary == Get(op.ret.value)
                   scores == ScoresOf(WorkOf(SummaryList))
               IN /\ summary.total_sessions = Len(WorkOf(SummaryList))
                  /\ summary.total_focus_time = Total(WorkOf(SummaryList), "focus_time")
                  /\ summary.total_away_time = Total(WorkOf(SummaryList), "away_time")
                  /\ summary.total_distractions
                         = Total(WorkOf(SummaryList), "distraction_count")
                  /\ summary.average_focus_score = FloatDiv(SumSeq(scores), Len(scores))
                  /\ \A i \in 1..Len(scores) :
                         /\ scores[i] <= summary.best_session_score
                         /\ summary.worst_session_score <= scores[i]
                  /\ \E i \in 1..Len(scores) : scores[i] = summary.best_session_score
                  /\ \E i \in 1..Len(scores) : scores[i] = summary.worst_session_score

\* The summary of a list of two work sessions of different scores with a
\* break between them: the average lies between the two scores.
C34_Witness ==
    /\ op.name = "get_statistics_summary"
    /\ Len(SummaryList) = 3
    /\ SummaryList[2].session_type = SHORT_BREAK
    /\ op.ret.raised = "none"
    /\ Get(op.ret.value).total_sessions = 2
    /\ Get(op.ret.value).worst_session_score < Get(op.ret.value).best_session_score
    /\ Get(op.ret.value).total_away_time > 0
    /\ FloatLess(FloatOfInt(Get(op.ret.value).worst_session_score),
                 Get(op.ret.value).average_focus_score)
    /\ FloatLess(Get(op.ret.value).average_focus_score,
                 FloatOfInt(Get(op.ret.value).best_session_score))


\* C39, as the specification states it: get_productivity_trends returns a
\* result without raising for every history, a history with no WORK session
\* in the current week included.
C39_AsClaimed ==
    op.name = "get_productivity_trends"
    => /\ op.ret.raised = "none"
       /\ WorkOf(GetThisWeekSessions(data_manager, clock)) = <<>>
          => /\ Get(op.ret.value).week_summary = ZeroSummary
             /\ Get(op.ret.value).today_summary = ZeroSummary


\* The engine t counts the ticks of a work session: one is RUNNING.
Counting(t) == GetSessionType(t) = Some(WORK) /\ GetState(t) = RUNNING

\* A work session starts in this step: start_work_session is called, or the
\* tick completes a break.
WorkSessionStarts ==
    \/ op'.name = "start_work_session"
    \/ \E i \in 1..Len(CompletedBy(fired')) : CompletedBy(fired')[i].session_type # WORK

\* C35: every completed WORK session has statistics.focus_time equal to its
\* planned_duration and to statistics.total_duration, whatever ticks, pauses,
\* resumes and set_durations calls came during it, and its away_time is the
\* number of absent ticks counted while it was RUNNING.  Step by step: the
\* away counter is 0 when a work session starts, goes up by one at each
\* absent tick of a RUNNING work session and is left alone by every other
\* call; the focus counter of a work session is always the part of its
\* planned_duration counted down so far; the session handed over at
\* completion is the RUNNING work session, with the away counter as its
\* away_time.
C35_WorkStatistics ==
    [][/\ \A i \in 1..Len(CompletedBy(fired')) :
              LET s == CompletedBy(fired')[i]
              IN s.session_type = WORK
                 => /\ Counting(timer)
                    /\ s.start_time = Get(timer.current_session).start_time
                    /\ Get(s.statistics).focus_time = s.planned_duration
                    /\ Get(s.statistics).total_duration = s.planned_duration
                    /\ Get(s.statistics).away_time = timer.current_session_away_time
       /\ GetSessionType(timer') = Some(WORK)
          => timer'.current_session_focus_time + timer'.time_remaining = Planned(timer')
       /\ timer'.current_session_away_time
              = IF WorkSessionStarts THEN 0
                ELSE IF op'.name = "tick" /\ Counting(timer) /\ ~op'.args[1]
                     THEN timer.current_session_away_time + 1
                     ELSE timer.current_session_away_time]_vars

\* A tick has completed a work session during which the user was away for a
\* second and, the session being paused, the work duration was changed.
C35_Witness ==
    /\ op.name = "tick"
    /\ \E i \in 1..Len(CompletedBy(fired)) :
           /\ CompletedBy(fired)[i].session_type = WORK
           /\ Get(CompletedBy(fired)[i].statistics).away_time >= 1
           /\ Get(CompletedBy(fired)[i].statistics).focus_time = SecondsPerMinute
           /\ timer.work_duration # CompletedBy(fired)[i].planned_duration


C37_StopKeepsCycle ==
    [][/\ op'.name = "stop"
          => /\ timer'.session_count = timer.session_count
             /\ timer'.daily_goal = timer.daily_goal
             /\ timer'.total_focus_time = timer.total_focus_time
             /\ timer'.total_break_time = timer.total_break_time
             /\ timer'.total_away_time = timer.total_away_time
             /\ SelectedBreak(timer') = SelectedBreak(timer)
       /\ (op.name = "stop" /\ op'.name = "start_work_session")
          => /\ IsRunning(timer', {WORK})
             /\ timer'.session_count = timer.session_count
             /\ timer'.daily_goal = timer.daily_goal
             /\ SelectedBreak(timer') = SelectedBreak(timer)
       /\ (/\ op'.name = "tick"
           /\ \E i \in 1..Len(CompletedBy(fired')) : CompletedBy(fired')[i].session_type = WORK)
          => /\ timer'.session_count = timer.session_count + 1
             /\ Get(timer'.current_session).session_type
                    = IF (timer.session_count + 1) % timer.sessions_until_long_break = 0
                      THEN LONG_BREAK ELSE SHORT_BREAK]_vars

\* stop() has discarded the work session whose completion was to start the
\* long break: the count of completed work sessions is still one short of
\* sessions_until_long_break, with seconds of that session in the totals.
C37_Witness ==
    /\ op.name = "stop"
    /\ ~HasSession(timer)
    /\ timer.session_count >= 1
    /\ (timer.session_count + 1) % timer.sessions_until_long_break = 0
    /\ timer.daily_goal.completed_sessions = timer.session_count
    /\ timer.total_focus_time > timer.session_count * timer.work_duration
    /\ timer.current_session_focus_time > 0


\* The seconds left to count down are enough for the current session.
Fits(t) == t.time_remaining <= MaxLiveTime - CountedDown(t)

\* C38: with the driver ticking, no pause and no stop, and the user present
\* on infinitely many ticks, every session that starts completes and work
\* and break sessions alternate: a RUNNING work session leads to the break
\* that follows it and a RUNNING break to the next work session (as long as
\* the seconds the model counts are enough for the session).  A tick never
\* leaves a session PAUSED or PAUSED_AWAY; a tick without the user leaves a
\* RUNNING work session as it is, RUNNING with the same time_remaining and
\* not completed.
C38_Progress ==
    /\ (IsRunning(timer, {WORK}) /\ Fits(timer)) ~> IsRunning(timer, Breaks)
    /\ (IsRunning(timer, Breaks) /\ Fits(timer)) ~> IsRunning(timer, {WORK})
    /\ [][op'.name = "tick"
          => /\ GetState(timer') \notin {PAUSED, PAUSED_AWAY}
             /\ (IsRunning(timer, {WORK}) /\ ~op'.args[1])
                => /\ timer'.current_session = timer.current_session
                   /\ timer'.time_remaining = timer.time_remaining
                   /\ CompletedBy(fired') = <<>>]_vars

\* The third work session is running: two work sessions, a short break and
\* the long break have been completed, with the user away for a while.
C38_Witness ==
    /\ op.name = "tick"
    /\ IsRunning(timer, {WORK})
    /\ timer.session_count = timer.sessions_until_long_break
    /\ timer.total_break_time = timer.short_break_duration + timer.long_break_duration
    /\ timer.total_away_time = MaxLiveAway
    /\ timer.current_session_focus_time >= 1

====
